---- MODULE Spec2Model ----
(***************************************************************************)
(* State-machine model of pyAntDisplay's decode / assign / change-gate     *)
(* pipeline: pyantdisplay.common.deep_merge_save, the MQTT monitor         *)
(* (services/mqtt_monitor.py) and the curses live monitor                  *)
(* (ui/live_monitor.py).                                                   *)
(*                                                                         *)
(* Python values are encoded as follows.                                   *)
(*   Optional[T]   : <<>> is None, <<v>> is the value v                    *)
(*   dict          : a function whose DOMAIN is the set of present keys    *)
(*   float         : an exact rational <<num, den>> in lowest terms        *)
(*   str           : a TLA+ string, built with \o and ToString             *)
(***************************************************************************)
EXTENDS Integers, Sequences, FiniteSets, TLC

VARIABLES
    now,                    \* time.time(), whole seconds
    store,                  \* content of the JSON file at save_path
    last_save_times,        \* last_save_times: record key -> time
    last_published_values,  \* MqttMonitor.last_published_values
    last_availability,      \* MqttMonitor.last_availability
    broker,                 \* publish sink: topic -> last payload it accepted
    obs,                    \* what the last handler did (calls it made)
    hist,                   \* history of the arguments of earlier calls
    monitor,                \* "mqtt": MqttMonitor, "live": ui.LiveMonitor
    channels,               \* self.channels: the channels opened so far
    device_values,          \* self.device_values
    user_values,            \* self.user_values
    last_hr_active_user,    \* self.last_hr_active_user
    main,                   \* the main thread: where it is, its locals
    sensor,                 \* the radio: samples sent, packets delivered
    lock,                   \* self.lock: the thread that holds it, or None
    workers,                \* the threads that run on_broadcast: where
                            \* each is, its arguments and locals
    bike,                   \* devices.BikeSensor: its attributes
    hrm,                    \* devices.HeartRateMonitor: its attributes
    scanner                 \* core.DeviceScanner: its attributes and the
                            \* state of its channel callbacks

monitor_vars == <<monitor, channels, device_values, user_values,
                  last_hr_active_user, main, sensor, lock, workers, bike,
                  hrm, scanner>>

vars == <<now, store, last_save_times, last_published_values,
          last_availability, broker, obs, hist, monitor_vars>>

----------------------------------------------------------------------------
(* Python helpers                                                          *)

None == <<>>

Some(v) == <<v>>

\* d.get(k, default)
DictGet(d, k, default) == IF k \in DOMAIN d THEN d[k] ELSE default

\* d[k] = v
DictSet(d, k, v) == (k :> v) @@ d

\* d.update(e): the keys of e win
DictUpdate(d, e) == e @@ d

EmptyDict == << >>

RECURSIVE Gcd(_, _)
Gcd(a, b) == IF b = 0 THEN a ELSE Gcd(b, a % b)

\* the float n/d
Ratio(n, d) == IF n = 0 THEN <<0, 1>> ELSE <<n \div Gcd(n, d), d \div Gcd(n, d)>>

\* int(x) of a non-negative float
IntOf(q) == q[1] \div q[2]

\* f"{x:.2f}" of a non-negative float
Format2f(q) ==
    LET cents == (200 * q[1] + q[2]) \div (2 * q[2])
        frac  == cents % 100
    IN  ToString(cents \div 100) \o "." \o
        (IF frac < 10 THEN "0" ELSE "") \o ToString(frac)

----------------------------------------------------------------------------
(* Configuration of the modelled run                                       *)

\* mqtt.base_topic
base_topic == "pyantdisplay"

UserNames == {"A", "B"}

Metrics == {"hr", "speed", "cadence", "power"}

\* the order in which _publish_user_metrics looks at the metrics
MetricOrder == <<"hr", "speed", "cadence", "power">>

----------------------------------------------------------------------------
(* pyantdisplay.common                                                     *)

\* data[i] of a Python bytes object (0-based); raises IndexError when short
HasByte(data, i) == i < Len(data)

Byte(data, i) == data[i + 1]

\* a | (b << 8) of two bytes
U16(lo, hi) == lo + 256 * hi

TYPE_NAMES ==
    (120 :> "Heart Rate Monitor") @@ (121 :> "Speed and Cadence Sensor") @@
    (122 :> "Cadence Sensor") @@ (123 :> "Speed Sensor") @@
    (11 :> "Power Meter") @@ (16 :> "Fitness Equipment") @@
    (17 :> "Environment Sensor")

\* load_manufacturers() without a manufacturers.yaml
DefaultManufacturers == (1 :> "Garmin/Dynastream")

\* parse_common_pages(data): the IndexError of a short buffer is swallowed
\* and leaves info empty, because info.update is the last statement
ParseCommonPages(data) ==
    IF ~HasByte(data, 0) THEN EmptyDict
    ELSE IF Byte(data, 0) = 80 /\ HasByte(data, 6)
    THEN [manufacturer_id |-> U16(Byte(data, 1), Byte(data, 2)),
          serial_number   |-> Byte(data, 3) + 256 * Byte(data, 4)
                              + 65536 * Byte(data, 5)
                              + 16777216 * Byte(data, 6)]
    ELSE IF Byte(data, 0) = 81 /\ HasByte(data, 5)
    THEN [hw_revision  |-> Byte(data, 1),
          sw_revision  |-> ToString(Byte(data, 2)) \o "." \o
                           ToString(Byte(data, 3)),
          model_number |-> U16(Byte(data, 4), Byte(data, 5))]
    ELSE EmptyDict

record_key(device_type, device_id) ==
    ToString(device_type) \o "_" \o ToString(device_id)

\* bool(base_extra)
Truthy(base_extra) == base_extra # None /\ base_extra[1] # EmptyDict

\* the record deep_merge_save builds before it looks at the rate limit
BaseRecord(device_id, device_type, transmission_type, base_extra, manufacturers, t) ==
    LET base  == [device_id |-> device_id, device_type |-> device_type,
                  transmission_type |-> transmission_type,
                  description |->
                      DictGet(TYPE_NAMES, device_type,
                              "Device type " \o ToString(device_type)),
                  last_seen |-> t]
        base2 == IF Truthy(base_extra) THEN DictUpdate(base, base_extra[1])
                 ELSE base
    IN  IF "manufacturer_id" \in DOMAIN base2
           /\ base2["manufacturer_id"] \in DOMAIN manufacturers
        THEN DictSet(base2, "manufacturer_name",
                     manufacturers[base2["manufacturer_id"]])
        ELSE base2

\* rate limiting is on: `if rate_limit_secs and last_save_times is not None`
RateLimited(rate_limit_secs) ==
    rate_limit_secs # None /\ rate_limit_secs[1] # 0

\* mutant: the window is inclusive
ShouldWrite_Inclusive(base_extra, t, last, rate_limit_secs) ==
    Truthy(base_extra) \/ (t - last) >= rate_limit_secs

\* mutant: metadata does not bypass the rate limit
ShouldWrite_NoBypass(base_extra, t, last, rate_limit_secs) ==
    (t - last) > rate_limit_secs

\* should_write
ShouldWrite(base_extra, t, last, rate_limit_secs) ==
    Truthy(base_extra) \/ (t - last) > rate_limit_secs

\* the file: [state |-> "missing" | "corrupt" | "json", data |-> dict]
MissingFile == [state |-> "missing", data |-> EmptyDict]

CorruptFile == [state |-> "corrupt", data |-> EmptyDict]

\* mutant: the record is replaced instead of merged
MergeRecord_Replace(file, rk, base) ==
    [state |-> "json",
     data  |-> DictSet(IF file.state = "json" THEN file.data ELSE EmptyDict,
                       rk, base)]

\* file content after `existing[rk] = merged; json.dump(existing, f)`
MergeRecord(file, rk, base) ==
    LET existing == IF file.state = "json" THEN file.data ELSE EmptyDict
        merged   == DictUpdate(DictGet(existing, rk, EmptyDict), base)
    IN  [state |-> "json", data |-> DictSet(existing, rk, merged)]

\* the read-merge-write of deep_merge_save under the I/O outcome io:
\* "ok"; "error" (open or json.load raises another error than
\* FileNotFoundError or JSONDecodeError, or open for writing raises):
\* nothing is written; "dump" (the write fails after open truncated the
\* file)
WriteFile(file, rk, base, io) ==
    CASE io = "ok"   -> MergeRecord(file, rk, base)
      [] io = "dump" -> CorruptFile
      [] OTHER       -> file

IoOutcomes == {"ok", "error", "dump"}

\* mutant: the I/O error is raised to the caller
SwallowPersistenceErrors_Raise(raised) == raised

\* deep_merge_save, "Swallow persistence errors silently": the try block
\* around the load, the merge and the dump has `except Exception: pass`, so
\* of the I/O calls that raised none reaches the caller
SwallowPersistenceErrors(raised) == {}

\* deep_merge_save(...): t is time.time(); returns the file, last_save_times
\* and what happened
\* mutant: the last-write time is recorded only when the write went through
RecordSaveTime_OnSuccess(lst, rk, t, io) ==
    IF io = "ok" THEN DictSet(lst, rk, t) ELSE lst

\* last_save_times[rk] = now, assigned before the file is opened, whatever
\* the I/O (io) will do
RecordSaveTime(lst, rk, t, io) == DictSet(lst, rk, t)

DeepMergeSave(file, lst, device_id, device_type, transmission_type, base_extra, manufacturers, rate_limit_secs, t, io) ==
    LET base == BaseRecord(device_id, device_type, transmission_type,
                           base_extra, manufacturers, t)
        rk   == record_key(device_type, device_id)
        last == DictGet(lst, rk, 0)
    IN  IF RateLimited(rate_limit_secs)
           /\ ~ShouldWrite(base_extra, t, last, rate_limit_secs[1])
        THEN [file |-> file, lst |-> lst, result |-> "rate_limited"]
        ELSE [file   |-> WriteFile(file, rk, base, io),
              lst    |-> IF RateLimited(rate_limit_secs)
                         THEN RecordSaveTime(lst, rk, t, io) ELSE lst,
              result |-> IF io = "ok" THEN "written" ELSE "io_error"]

----------------------------------------------------------------------------
(* Publish sink (the MQTT client): every call either is accepted by the    *)
(* broker or raises.                                                       *)

\* broker after the calls `calls` (a sequence of <<topic, payload>>), of
\* which those with a topic in `raised` raised instead of being accepted
Deliver(b, calls, raised) ==
    LET RECURSIVE Go(_, _)
        Go(bb, i) ==
            IF i > Len(calls) THEN bb
            ELSE Go(IF calls[i][1] \in raised THEN bb
                    ELSE DictSet(bb, calls[i][1], calls[i][2]), i + 1)
    IN  Go(b, 1)

Topics(calls) == {calls[i][1] : i \in 1..Len(calls)}

----------------------------------------------------------------------------
(* MqttMonitor: change-gated publishing                                     *)

MetricTopic(user, m) == base_topic \o "/users/" \o user \o "/" \o m

AvailabilityTopic(user) == base_topic \o "/users/" \o user \o "/availability"

\* the payload strings of _publish_user_metrics
MetricPayload(m, v) ==
    CASE m = "hr"      -> ToString(v)
      [] m = "speed"   -> Format2f(v)
      [] m = "cadence" -> ToString(IntOf(v))
      [] m = "power"   -> ToString(v)

\* mutant: publishes every present value
MetricChanged_NoDebounce(last_vals, vals, m) ==
    DictGet(vals, m, None) # None

\* the condition of each `if` of _publish_user_metrics
MetricChanged(last_vals, vals, m) ==
    /\ DictGet(vals, m, None) # None
    /\ DictGet(vals, m, None) # DictGet(last_vals, m, None)

\* mutant: an absent value keeps the value recorded before
RecordPublished_KeepAbsent(last_vals, vals) ==
    [m \in Metrics |-> IF DictGet(vals, m, None) # None
                       THEN vals[m] ELSE DictGet(last_vals, m, None)]

\* what _publish_user_metrics stores in last_published_values[user]
RecordPublished(last_vals, vals) ==
    [m \in Metrics |-> DictGet(vals, m, None)]

\* _publish_user_metrics(user, vals): the sink calls it makes, in order, and
\* the new last_published_values. _publish swallows what the sink raises,
\* so the outcome of the calls has no influence on either.
PublishUserMetrics(lpv, user, vals) ==
    LET last_vals == DictGet(lpv, user, EmptyDict)
        due       == SelectSeq(MetricOrder,
                               LAMBDA m : MetricChanged(last_vals, vals, m))
    IN  [calls |-> [i \in 1..Len(due) |->
                       <<MetricTopic(user, due[i]),
                         MetricPayload(due[i], vals[due[i]][1])>>],
         lpv   |-> DictSet(lpv, user, RecordPublished(last_vals, vals))]

\* the guard of _availability
AvailabilityChanged(la, user, online) ==
    DictGet(la, user, None) # Some(online)

\* mutant: records the flag also when the publish call raised
RecordAvailability_Always(la, user, online, ok) ==
    DictSet(la, user, Some(online))

\* last_availability after the publish call of _availability returned (ok)
\* or raised (~ok)
RecordAvailability(la, user, online, ok) ==
    IF ok THEN DictSet(la, user, Some(online)) ELSE la

\* _availability(user, online); ok says whether the sink accepts the call
Availability(la, user, online, ok) ==
    IF AvailabilityChanged(la, user, online)
    THEN [calls  |-> <<<<AvailabilityTopic(user),
                        IF online THEN "online" ELSE "offline">>>>,
          raised |-> IF ok THEN {} ELSE {AvailabilityTopic(user)},
          la     |-> RecordAvailability(la, user, online, ok)]
    ELSE [calls |-> <<>>, raised |-> {}, la |-> la]

----------------------------------------------------------------------------
(* Direct calls of the two publish handlers, as the unit tests make them   *)

StartTime == 40

\* the vals dictionaries the calls carry: the ones of test_mqtt_monitor.py
\* (all metrics present, only hr changed, some metrics absent), one with
\* only the speed changed and one with nothing present
ValsDicts ==
    {[hr |-> Some(75), speed |-> Some(Ratio(51, 2)),
      cadence |-> Some(Ratio(90, 1)), power |-> Some(150)],
     [hr |-> Some(80), speed |-> Some(Ratio(51, 2)),
      cadence |-> Some(Ratio(90, 1)), power |-> Some(150)],
     [hr |-> Some(75), speed |-> Some(Ratio(30, 1)),
      cadence |-> Some(Ratio(90, 1)), power |-> Some(150)],
     [hr |-> Some(75), speed |-> None,
      cadence |-> Some(Ratio(90, 1)), power |-> None],
     [hr |-> Some(80), speed |-> Some(Ratio(30, 1)),
      cadence |-> None, power |-> Some(200)],
     [hr |-> None, speed |-> None, cadence |-> None, power |-> None]}

\* history kept for stating the properties: per user the vals of the
\* previous _publish_user_metrics call and per metric the last value that
\* was not None; the _availability calls made so far; the number of sink
\* calls they made; per record key the time of the last rate-limited
\* deep_merge_save call that was allowed to write; the heart-rate devices
\* that delivered a packet with a nonzero heart-rate byte; the device of the
\* most recent such packet; the users whose update time the shared-device
\* step has stamped; the heart-rate device of the most recent packet that
\* carried a heart rate; per device the record that results from applying
\* its packets one after the other; the record keys a callback has written
\* to the file; whether a callback was started while another was running
NoHistory ==
    [vals      |-> [u \in UserNames |-> None],
     present   |-> [u \in UserNames |-> [m \in Metrics |-> None]],
     avail_log |-> <<>>,
     avail_pub |-> [u \in UserNames |-> 0],
     saved     |-> EmptyDict,
     hr_seen   |-> {},
     last_hr   |-> None,
     shared    |-> {},
     last_from |-> None,
     replay    |-> EmptyDict,
     writes    |-> {},
     overlap   |-> FALSE,
     id_ok     |-> EmptyDict,
     id_failed |-> EmptyDict,
     id_late   |-> EmptyDict,
     stop_called |-> FALSE,
     failed    |-> EmptyDict]

MaxAvailCalls == 5

\* BikeSensor.__init__
NewBikeSensor ==
    [speed |-> <<0, 1>>, cadence |-> 0, distance |-> <<0, 1>>,
     last_update |-> 0,
     _last_speed_event_time |-> 0, _last_speed_revolution_count |-> 0,
     _last_cadence_event_time |-> 0, _last_cadence_revolution_count |-> 0]

\* HeartRateMonitor.__init__
NewHeartRateMonitor ==
    [heart_rate |-> 0, rr_intervals |-> <<>>, last_update |-> 0]

\* DeviceScanner.__init__
NewScanner ==
    [found_devices |-> <<>>, scanning |-> FALSE, requested_state |-> <<>>,
     last_save_times |-> <<>>]

\* the threads that can run packet callbacks
Workers == {"w1", "w2"}

\* a thread outside on_broadcast
IdleWorker ==
    [pc |-> "idle", ch |-> [device_id |-> 0, device_type |-> 0, label |-> ""],
     data |-> <<>>, existing |-> EmptyDict, t |-> 0]

NoWorkers == [w \in Workers |-> IdleWorker]

\* no monitor object takes part in the direct calls
NoMonitor ==
    /\ monitor = "none"
    /\ channels = <<>>
    /\ device_values = EmptyDict
    /\ user_values = EmptyDict
    /\ last_hr_active_user = None
    /\ main = [pc |-> "none", i |-> 1, hr_value |-> None, target |-> None]
    /\ sensor = [sample |-> 0, delivered |-> 0]
    /\ lock = None
    /\ workers = NoWorkers
    /\ bike = NewBikeSensor
    /\ hrm = NewHeartRateMonitor
    /\ scanner = NewScanner

InitPublish ==
    /\ now = StartTime
    /\ store = EmptyDict
    /\ last_save_times = EmptyDict
    /\ last_published_values = EmptyDict
    /\ last_availability = EmptyDict
    /\ broker = EmptyDict
    /\ obs = [op |-> "init"]
    /\ hist = NoHistory
    /\ NoMonitor

\* monitor._publish_user_metrics(user, vals); the sink raises on the topics
\* in raised
CallPublishUserMetrics(user, vals, raised) ==
    LET r == PublishUserMetrics(last_published_values, user, vals)
    IN  /\ raised \subseteq Topics(r.calls)
        /\ last_published_values' = r.lpv
        /\ broker' = broker
        /\ obs' = [op |-> "_publish_user_metrics", user |-> user,
                   vals |-> vals, calls |-> r.calls, raised |-> raised,
                   prev_vals |-> hist.vals[user],
                   prev_present |-> hist.present[user]]
        /\ hist' = [hist EXCEPT
              !.vals[user] = Some(vals),
              !.present[user] = [m \in Metrics |->
                  IF vals[m] # None THEN vals[m] ELSE @[m]]]
        /\ UNCHANGED <<now, store, last_save_times, last_availability,
                       monitor_vars>>

\* monitor._availability(user, online); ok: the sink accepts the call
CallAvailability(user, online, ok) ==
    LET r == Availability(last_availability, user, online, ok)
    IN  /\ last_availability' = r.la
        /\ broker' = Deliver(broker, r.calls, r.raised)
        /\ obs' = [op |-> "_availability", user |-> user, online |-> online,
                   calls |-> r.calls, raised |-> r.raised]
        /\ hist' = [hist EXCEPT
              !.avail_log = Append(@, [user |-> user, online |-> online,
                                       ok |-> r.raised = {}]),
              !.avail_pub[user] = @ + Len(r.calls)]
        /\ UNCHANGED <<now, store, last_save_times, last_published_values,
                       monitor_vars>>

\* the sink raises on none, on one or on all of the calls of a handler
RaiseChoices(topics) == {{}, topics} \union {{t} : t \in topics}

NextPublish ==
    \E user \in UserNames, vals \in ValsDicts :
        \E raised \in RaiseChoices(Topics(PublishUserMetrics(
                              last_published_values, user, vals).calls)) :
            CallPublishUserMetrics(user, vals, raised)

SpecPublish == InitPublish /\ [][NextPublish]_vars

NextAvailability ==
    \E user \in UserNames, online \in BOOLEAN, ok \in BOOLEAN :
        /\ Len(hist.avail_log) < MaxAvailCalls
        /\ CallAvailability(user, online, ok)

SpecAvailability == InitPublish /\ [][NextAvailability]_vars

----------------------------------------------------------------------------
(* Direct calls of deep_merge_save, as tests/test_common.py makes them     *)

\* rate_limit_secs of the calls (the tests pass 10, the monitors 30)
RateLimitSecs == 2

MaxTime == 44

\* a page-80 broadcast (manufacturer 1, serial 5)
Page80Packet == <<80, 1, 0, 5, 0, 0, 0, 70>>

\* base_extra of the calls: none, an empty dict, a common page
ExtraChoices ==
    {None, Some(EmptyDict), Some(ParseCommonPages(Page80Packet))}

\* <<(device_type, device_id), base_extra, rate_limit_secs>> of the calls:
\* every kind of call for one device, plain rate-limited calls for another
SaveCalls ==
    {<<(<<120, 100>>), e, r>> :
        e \in ExtraChoices, r \in {None, Some(RateLimitSecs)}}
    \union {<<(<<123, 120>>), None, Some(RateLimitSecs)>>}

\* a file as test_deep_merge_save_existing_file finds it, with one more key
ExistingFile ==
    [state |-> "json",
     data  |-> ("120_100" :> [device_id |-> 100, device_type |-> 120,
                              old_field |-> "old_value"])
               @@ ("11_111" :> [device_id |-> 111, device_type |-> 11])]

InitSave ==
    /\ now = StartTime
    /\ store \in {MissingFile, CorruptFile, ExistingFile}
    /\ last_save_times = EmptyDict
    /\ last_published_values = EmptyDict
    /\ last_availability = EmptyDict
    /\ broker = EmptyDict
    /\ obs = [op |-> "init"]
    /\ hist = NoHistory
    /\ NoMonitor

\* time passes
AdvanceClock ==
    /\ now < MaxTime
    /\ now' = now + 1
    /\ obs' = [op |-> "clock"]
    /\ UNCHANGED <<store, last_save_times, last_published_values,
                   last_availability, broker, hist, monitor_vars>>

\* deep_merge_save(save_path, device_id, device_type, transmission_type,
\*                 base_extra, manufacturers, rate_limit_secs, last_save_times)
CallDeepMergeSave(dev, transmission_type, base_extra, rate_limit_secs, io) ==
    LET r  == DeepMergeSave(store, last_save_times, dev[2], dev[1],
                            transmission_type, base_extra,
                            DefaultManufacturers, rate_limit_secs, now, io)
        rk == record_key(dev[1], dev[2])
    IN  /\ store' = r.file
        /\ last_save_times' = r.lst
        /\ obs' = [op |-> "deep_merge_save", device_type |-> dev[1],
                   device_id |-> dev[2],
                   transmission_type |-> transmission_type,
                   base_extra |-> base_extra,
                   rate_limit_secs |-> rate_limit_secs,
                   t |-> now, result |-> r.result,
                   prev_saved |-> DictGet(hist.saved, rk, None),
                   escaped |-> SwallowPersistenceErrors(
                                  IF r.result = "io_error" THEN {io} ELSE {})]
        /\ hist' = IF r.result # "rate_limited" /\ RateLimited(rate_limit_secs)
                   THEN [hist EXCEPT
                           !.saved = DictSet(@, rk, Some(now)),
                           !.failed = DictSet(@, rk,
                                          IF r.result = "io_error"
                                          THEN now ELSE 0)]
                   ELSE hist
        /\ UNCHANGED <<now, last_published_values, last_availability, broker,
                       monitor_vars>>

NextSave ==
    \/ AdvanceClock
    \/ \E c \in SaveCalls, io \in IoOutcomes :
            CallDeepMergeSave(c[1], 1, c[2], c[3], io)

SpecSave == InitSave /\ [][NextSave]_vars

----------------------------------------------------------------------------
(* The monitors: configuration and packet decoding                         *)

\* sensor_map.users of the modelled run: one user with two heart-rate
\* straps, one in the legacy single-strap form with a power meter of his own
Users ==
    << [name |-> "A", hr_device_ids |-> <<100, 101>>],
       [name |-> "B", hr_device_id |-> 102, power_device_id |-> 111] >>

\* sensor_map.wattbike: the shared speed sensor
Wattbike == [speed_device_id |-> 120]

\* mqtt.stale_secs of the modelled run
stale_secs == 1

\* wheel_circumference_m: the default 2.105
wheel_circumference_m == <<421, 200>>

\* rate_limit_secs the monitors pass to deep_merge_save
MonitorRateLimitSecs == 30

\* the user store entry that setdefault creates
NewUserValues ==
    [hr |-> None, speed |-> None, cadence |-> None, power |-> None,
     updated |-> 0]

\* hr_ids of a user entry: the list, or the legacy single id
HrIds(user) ==
    LET hr_ids    == DictGet(user, "hr_device_ids", <<>>)
        old_hr_id == DictGet(user, "hr_device_id", 0)
    IN  IF hr_ids # <<>> THEN hr_ids
        ELSE IF old_hr_id # 0 THEN <<old_hr_id>> ELSE <<>>

InSeq(x, s) == \E j \in 1..Len(s) : s[j] = x

\* _user_for_hr(hr_device_id): the first user that lists the device
user_for_hr(hr_device_id) ==
    LET RECURSIVE Go(_)
        Go(i) == IF i > Len(Users) THEN None
                 ELSE IF InSeq(hr_device_id, HrIds(Users[i]))
                      THEN Some(Users[i].name)
                      ELSE Go(i + 1)
    IN  Go(1)

\* _user_for_hr of pyantdisplay.live_monitor.LiveMonitor: the first user
\* whose hr_device_id is the device; hr_device_ids is not looked at
user_for_hr_legacy(hr_device_id) ==
    LET RECURSIVE Go(_)
        Go(i) == IF i > Len(Users) THEN None
                 ELSE IF DictGet(Users[i], "hr_device_id", 0) = hr_device_id
                      THEN Some(Users[i].name)
                      ELSE Go(i + 1)
    IN  Go(1)

\* self._user_for_hr(hr_device_id) of the monitor class mon
UserForHr(mon, hr_device_id) ==
    IF mon = "legacy" THEN user_for_hr_legacy(hr_device_id)
    ELSE user_for_hr(hr_device_id)

\* on_broadcast, device_type 120. MqttMonitor reads data[7] only and leaves
\* "hr" out of the parsed dict when the buffer is short; LiveMonitor reads
\* data[4..7] and stores hr 0 when the buffer is short.
ParseHr(mon, data) ==
    IF mon = "mqtt"
    THEN IF HasByte(data, 7)
         THEN [type |-> "hr", hr |-> Some(Byte(data, 7))]
         ELSE [type |-> "hr"]
    ELSE IF HasByte(data, 7)
         THEN [type |-> "hr", hr |-> Some(Byte(data, 7)),
               beat_time  |-> Ratio(U16(Byte(data, 4), Byte(data, 5)), 1024),
               beat_count |-> Byte(data, 6)]
         ELSE [type |-> "hr", hr |-> Some(0)]

\* mutant: a plain difference, without the wrap of the 16-bit counters
Delta16_NoWrap(new, prior) == new - prior

\* (new - prior) & 0xFFFF
Delta16(new, prior) == (new - prior) % 65536

\* mutant: a device without a previous sample has a baseline of zero
Baseline_Zero(prev) ==
    Some([evt_time |-> DictGet(prev, "evt_time", 0),
          revs |-> DictGet(prev, "revs", 0)])

\* last_time = prev.get("evt_time"), last_revs = prev.get("revs"), when
\* neither is None
Baseline(prev) ==
    IF {"evt_time", "revs"} \subseteq DOMAIN prev
    THEN Some([evt_time |-> prev.evt_time, revs |-> prev.revs])
    ELSE None

\* on_broadcast, device_type 121, 122, 123: speed in km/h and cadence in rpm
\* from the 16-bit deltas to the previous sample of the device (prev).
\* ((d_revs * circ) / sec) * 3.6 with sec = dt_ticks / 1024 is computed
\* exactly.
ParseBike(device_type, prev, data) ==
    IF ~HasByte(data, 7) THEN [type |-> "bike"]
    ELSE
    LET evt_time == U16(Byte(data, 4), Byte(data, 5))
        revs     == U16(Byte(data, 6), Byte(data, 7))
        last     == Baseline(prev)
        known    == last # None
        dt_ticks == Delta16(evt_time, last[1].evt_time)
        d_revs   == Delta16(revs, last[1].revs)
        moving   == known /\ dt_ticks > 0 /\ d_revs >= 0
        circ     == wheel_circumference_m
    IN  [type |-> "bike",
         speed |-> IF moving /\ device_type \in {123, 121}
                   THEN Some(Ratio(d_revs * circ[1] * 1024 * 18,
                                   circ[2] * dt_ticks * 5))
                   ELSE None,
         cadence |-> IF moving /\ device_type \in {122, 121}
                     THEN Some(Ratio(d_revs * 1024 * 60, dt_ticks))
                     ELSE None,
         evt_time |-> evt_time,
         revs |-> revs]

\* on_broadcast, device_type 11
ParsePower(data) ==
    [type |-> "power",
     power |-> IF Len(data) >= 9
               THEN Some(U16(Byte(data, 7), Byte(data, 8)))
               ELSE None]

\* the parsed dict of on_broadcast; its "ts" entry (time.time(), read by
\* nobody) is left out
Parse(mon, device_type, prev, data) ==
    CASE device_type = 120 -> ParseHr(mon, data)
      [] device_type \in {121, 122, 123} -> ParseBike(device_type, prev, data)
      [] device_type = 11 -> ParsePower(data)
      [] OTHER -> [type |-> "unknown"]

\* the test of "Update HR active user": `dv.get("hr", 0)` in MqttMonitor,
\* `dv.get("hr", 0) > 0` in LiveMonitor
HrActive(mon, device_type, dv) ==
    /\ device_type = 120
    /\ IF mon = "mqtt" THEN DictGet(dv, "hr", Some(0))[1] # 0
       ELSE DictGet(dv, "hr", Some(0))[1] > 0

\* mutant: the value of a device that has reported is copied even when it
\* is None
CopySensors_Overwrite(uv, cfg, dvs) ==
    LET Pick(m) ==
            LET id == DictGet(cfg, m \o "_device_id", 0)
            IN  IF id # 0 /\ id \in DOMAIN dvs
                THEN DictGet(dvs[id], m, None) ELSE uv[m]
    IN  [uv EXCEPT !.speed = Pick("speed"), !.cadence = Pick("cadence"),
                   !.power = Pick("power")]

\* the copy of speed, cadence and power from the devices that cfg (a user
\* entry or the wattbike entry) names into the user store entry uv: a value
\* is copied when the device has reported and its value is not None
CopySensors(uv, cfg, dvs) ==
    LET Pick(m) ==
            LET id == DictGet(cfg, m \o "_device_id", 0)
            IN  IF id # 0 /\ id \in DOMAIN dvs
                   /\ DictGet(dvs[id], m, None) # None
                THEN dvs[id][m] ELSE uv[m]
    IN  [uv EXCEPT !.speed = Pick("speed"), !.cadence = Pick("cadence"),
                   !.power = Pick("power")]

\* mutant: the last listed device that has a value wins
ScanHr_Last(user, dvs) ==
    LET ids == HrIds(user)
        RECURSIVE Go(_)
        Go(j) == IF j < 1 THEN None
                 ELSE IF ids[j] # 0 /\ ids[j] \in DOMAIN dvs
                         /\ DictGet(dvs[ids[j]], "hr", None) # None
                      THEN dvs[ids[j]].hr
                      ELSE Go(j - 1)
    IN  Go(Len(ids))

\* "Check for active HR devices for this user": the value of the first
\* listed device that has one
ScanHr(user, dvs) ==
    LET ids == HrIds(user)
        RECURSIVE Go(_)
        Go(j) == IF j > Len(ids) THEN None
                 ELSE IF ids[j] # 0 /\ ids[j] \in DOMAIN dvs
                         /\ DictGet(dvs[ids[j]], "hr", None) # None
                      THEN dvs[ids[j]].hr
                      ELSE Go(j + 1)
    IN  Go(1)

\* mutant: without an active user the first configured user is the target
SharedTarget_Default(users, wattbike, lhau) ==
    IF lhau = None THEN Some(users[1].name) ELSE lhau

\* the target of the shared-device step of _assign_shared_sensors, None
\* when the step returns early
SharedTarget(users, wattbike, lhau) ==
    IF users = <<>> \/ DOMAIN wattbike = {} THEN None
    ELSE IF lhau = None \/ lhau = Some("") THEN None
    ELSE lhau

\* MqttMonitor, "Update user values if we have HR data"
AssignHr(uvs, user, hr_value, dvs, t) ==
    LET uv == [DictGet(uvs, user.name, NewUserValues)
                  EXCEPT !.hr = hr_value, !.updated = t]
    IN  DictSet(uvs, user.name, CopySensors(uv, user, dvs))

\* the locked block of the shared-device step
AssignShared(uvs, target, wattbike, dvs, t) ==
    LET uv == CopySensors(DictGet(uvs, target, NewUserValues), wattbike, dvs)
    IN  DictSet(uvs, target, [uv EXCEPT !.updated = t])

----------------------------------------------------------------------------
(* The monitors: start-up, the packet callback and the main loop           *)

MaxMonitorTime == 41

MaxPackets == 3

\* _open_channel calls of _open_configured_channels for the sensors that
\* cfg names, in the order of the code
SensorSteps(cfg, prefix) ==
    LET Step(key, device_type, suffix) ==
            IF DictGet(cfg, key, 0) # 0
            THEN <<[op |-> "open", device_id |-> cfg[key],
                    device_type |-> device_type,
                    label |-> prefix \o suffix]>>
            ELSE <<>>
    IN  Step("speed_device_id", 123, "-Speed")
        \o Step("cadence_device_id", 122, "-Cadence")
        \o Step("power_device_id", 11, "-Power")

\* the first loop of _open_configured_channels for one user: a channel per
\* heart-rate device, then the user store entry
UserHrSteps(user) ==
    LET ids == HrIds(user)
        Label(j) == user.name \o "-HR" \o
                    (IF Len(ids) > 1 THEN ToString(j) ELSE "")
        RECURSIVE Opens(_)
        Opens(j) == IF j > Len(ids) THEN <<>>
                    ELSE (IF ids[j] # 0
                          THEN <<[op |-> "open", device_id |-> ids[j],
                                  device_type |-> 120, label |-> Label(j)]>>
                          ELSE <<>>) \o Opens(j + 1)
    IN  Opens(1) \o
        (IF ids # <<>>
         THEN <<[op |-> "init_user", device_id |-> 0, device_type |-> 0,
                 label |-> user.name]>>
         ELSE <<>>)

\* _open_configured_channels as the sequence of its steps
SetupProgram ==
    LET RECURSIVE Hr(_)
        Hr(i) == IF i > Len(Users) THEN <<>>
                 ELSE UserHrSteps(Users[i]) \o Hr(i + 1)
        RECURSIVE Own(_)
        Own(i) == IF i > Len(Users) THEN <<>>
                  ELSE SensorSteps(Users[i], Users[i].name) \o Own(i + 1)
    IN  Hr(1) \o Own(1) \o
        (IF DOMAIN Wattbike # {} THEN SensorSteps(Wattbike, "Wattbike")
         ELSE <<>>)

\* the first loop of _open_configured_channels of
\* pyantdisplay.live_monitor.LiveMonitor for one user: a channel and the
\* user store entry when the user has an hr_device_id
LegacyHrSteps(user) ==
    LET hr_id == DictGet(user, "hr_device_id", 0)
    IN  IF hr_id # 0
        THEN <<[op |-> "open", device_id |-> hr_id, device_type |-> 120,
                label |-> user.name \o "-HR"],
               [op |-> "init_user", device_id |-> 0, device_type |-> 0,
                label |-> user.name]>>
        ELSE <<>>

\* _open_configured_channels of pyantdisplay.live_monitor.LiveMonitor
LegacySetupProgram ==
    LET RECURSIVE Hr(_)
        Hr(i) == IF i > Len(Users) THEN <<>>
                 ELSE LegacyHrSteps(Users[i]) \o Hr(i + 1)
        RECURSIVE Own(_)
        Own(i) == IF i > Len(Users) THEN <<>>
                  ELSE SensorSteps(Users[i], Users[i].name) \o Own(i + 1)
    IN  Hr(1) \o Own(1) \o
        (IF DOMAIN Wattbike # {} THEN SensorSteps(Wattbike, "Wattbike")
         ELSE <<>>)

\* the steps of _open_configured_channels of the monitor class mon
ProgramOf(mon) ==
    IF mon = "legacy" THEN LegacySetupProgram ELSE SetupProgram

\* the main thread at the top of its loop
LoopStart(mon) ==
    IF mon = "mqtt"
    THEN [pc |-> "scan", i |-> 1, hr_value |-> None, target |-> None]
    ELSE [pc |-> "shared", i |-> 1, hr_value |-> None, target |-> None]

AfterSetupStep ==
    IF main.i = Len(ProgramOf(monitor)) THEN LoopStart(monitor)
    ELSE [main EXCEPT !.i = @ + 1]

InitMonitor ==
    /\ monitor \in {"mqtt", "live"}
    /\ now = StartTime
    /\ store = MissingFile
    /\ last_save_times = EmptyDict
    /\ last_published_values = EmptyDict
    /\ last_availability = EmptyDict
    /\ broker = EmptyDict
    /\ obs = [op |-> "init"]
    /\ hist = NoHistory
    /\ channels = <<>>
    /\ device_values = EmptyDict
    /\ user_values = EmptyDict
    /\ last_hr_active_user = None
    /\ main = [pc |-> "setup", i |-> 1, hr_value |-> None, target |-> None]
    /\ sensor = [sample |-> 0, delivered |-> 0]
    /\ lock = None
    /\ workers = NoWorkers
    /\ bike = NewBikeSensor
    /\ hrm = NewHeartRateMonitor
    /\ scanner = NewScanner

\* _open_channel(device_id, device_type, label)
OpenChannel ==
    /\ main.pc = "setup"
    /\ ProgramOf(monitor)[main.i].op = "open"
    /\ channels' = Append(channels,
                          [device_id   |-> ProgramOf(monitor)[main.i].device_id,
                           device_type |-> ProgramOf(monitor)[main.i].device_type,
                           label       |-> ProgramOf(monitor)[main.i].label])
    /\ main' = AfterSetupStep
    /\ obs' = [op |-> "_open_channel"]
    /\ UNCHANGED <<now, store, last_save_times, last_published_values,
                   last_availability, broker, hist, monitor, device_values,
                   user_values, last_hr_active_user, sensor, lock, workers,
                   bike, hrm, scanner>>

\* "Initialize user store if they have any HR devices"; MqttMonitor also
\* announces the user as offline
InitUser(ok) ==
    /\ main.pc = "setup"
    /\ ProgramOf(monitor)[main.i].op = "init_user"
    /\ LET name == ProgramOf(monitor)[main.i].label
           r == IF monitor = "mqtt"
                THEN Availability(last_availability, name, FALSE, ok)
                ELSE [calls |-> <<>>, raised |-> {},
                      la |-> last_availability]
       IN  /\ user_values' =
                  IF name \in DOMAIN user_values THEN user_values
                  ELSE DictSet(user_values, name, NewUserValues)
           /\ last_availability' = r.la
           /\ broker' = Deliver(broker, r.calls, r.raised)
           /\ obs' = [op |-> "init_user", user |-> name, calls |-> r.calls,
                      raised |-> r.raised]
    /\ main' = AfterSetupStep
    /\ UNCHANGED <<now, store, last_save_times, last_published_values, hist,
                   monitor, channels, device_values, last_hr_active_user,
                   sensor, lock, workers, bike, hrm, scanner>>

\* the samples the shared speed sensor takes: <<event time, revolutions>>,
\* both 16-bit counters that wrap between the first and the second sample
BikeScript == << <<65530, 65534>>, <<10, 0>>, <<1034, 2>> >>

BikePacket(s) ==
    <<0, 0, 0, 0, s[1] % 256, s[1] \div 256, s[2] % 256, s[2] \div 256>>

HrPacket(hr) == <<0, 0, 0, 0, 0, 4, 1, hr>>

PowerPacket(power) == <<16, 1, 0, 0, 0, 0, 0, power % 256, power \div 256>>

\* a power page cut off after byte 7
ShortPowerPacket == <<16, 1, 0, 0, 0, 0, 0, 150>>

ShortPacket == <<0, 0, 0>>

\* the payloads a channel can deliver now; a bike sensor repeats its latest
\* sample or sends the next one
Packets(ch) ==
    CASE ch.device_type = 120 ->
            {HrPacket(70), HrPacket(0), ShortPacket}
      [] ch.device_type = 11 ->
            {PowerPacket(150), ShortPowerPacket}
      [] OTHER ->
            {ShortPacket} \union
            {BikePacket(BikeScript[k]) :
                k \in {sensor.sample, sensor.sample + 1}
                      \cap DOMAIN BikeScript}

\* mutant: the handler re-raises what it caught
ExceptPass_Reraise(raised) == raised

\* try: ... except Exception: pass. `raised` names the calls of the try
\* block that raised; the result names those whose exception leaves the
\* statement
ExceptPass(raised) == {}

\* on_broadcast(data) of channel c, the whole body under self.lock.
\* id_ok: ch.request_message returned the channel id (otherwise it raised and
\* nothing is saved); io: the outcome of the file I/O of deep_merge_save;
\* ok: the sink accepts the availability message.
OnBroadcast(c, data, id_ok, io, ok) ==
    LET ch     == channels[c]
        prev   == DictGet(device_values, ch.device_id, EmptyDict)
        parsed == Parse(monitor, ch.device_type, prev, data)
        dv     == [label |-> ch.label, device_type |-> ch.device_type,
                   device_id |-> ch.device_id] @@ parsed @@ prev
        extra  == ParseCommonPages(data)
        saved  == IF id_ok
                  THEN DeepMergeSave(store, last_save_times, ch.device_id,
                                     ch.device_type, 1,
                                     IF extra # EmptyDict THEN Some(extra)
                                     ELSE None,
                                     DefaultManufacturers,
                                     Some(MonitorRateLimitSecs), now, io)
                  ELSE [file |-> store, lst |-> last_save_times,
                        result |-> "no_id"]
        active == HrActive(monitor, ch.device_type, dv)
        user   == user_for_hr(ch.device_id)
        r      == IF monitor = "mqtt" /\ active /\ user # None
                     /\ user # Some("")
                  THEN Availability(last_availability, user[1], TRUE, ok)
                  ELSE [calls |-> <<>>, raised |-> {},
                        la |-> last_availability]
        nonzero == ch.device_type = 120 /\ HasByte(data, 7)
                   /\ Byte(data, 7) # 0
        io_raised == IF saved.result = "io_error" THEN {"open"} ELSE {}
        id_raised == IF id_ok THEN {} ELSE {"request_message"}
        escaped == ExceptPass(id_raised
                              \union SwallowPersistenceErrors(io_raised))
                   \union ExceptPass(r.raised)
    IN  /\ monitor # "none"
        /\ sensor.delivered < MaxPackets
        /\ sensor' = [delivered |-> sensor.delivered + 1,
                       sample |-> IF ch.device_type \in {121, 122, 123}
                                     /\ sensor.sample < Len(BikeScript)
                                     /\ data = BikePacket(
                                            BikeScript[sensor.sample + 1])
                                  THEN sensor.sample + 1
                                  ELSE sensor.sample]
        /\ device_values' = DictSet(device_values, ch.device_id, dv)
        /\ store' = saved.file
        /\ last_save_times' = saved.lst
        /\ last_hr_active_user' = IF active THEN user
                                  ELSE last_hr_active_user
        /\ last_availability' = r.la
        /\ broker' = Deliver(broker, r.calls, r.raised)
        /\ obs' = [op |-> "on_broadcast", device_id |-> ch.device_id,
                   data |-> data, calls |-> r.calls,
                   raised |-> io_raised \union id_raised \union r.raised,
                   escaped |-> escaped]
        /\ hist' = IF nonzero
                   THEN [hist EXCEPT !.hr_seen = @ \union {ch.device_id},
                                     !.last_hr = Some(ch.device_id),
                                     !.last_from = Some(ch.device_id)]
                   ELSE IF ch.device_type = 120 /\ HasByte(data, 7)
                   THEN [hist EXCEPT !.last_from = Some(ch.device_id)]
                   ELSE hist
        /\ UNCHANGED <<now, last_published_values, monitor, channels,
                       user_values, main, lock, workers, bike, hrm, scanner>>

\* the main thread moves on to the next user, or to the shared-device step
NextScan ==
    IF main.i < Len(Users)
    THEN [pc |-> "scan", i |-> main.i + 1, hr_value |-> None,
          target |-> None]
    ELSE [pc |-> "shared", i |-> 1, hr_value |-> None, target |-> None]

\* MqttMonitor._assign_shared_sensors, "Check for active HR devices for this
\* user": reads device_values without the lock
ScanUser ==
    /\ monitor = "mqtt"
    /\ main.pc = "scan"
    /\ LET hr_value == ScanHr(Users[main.i], device_values)
       IN  /\ main' = IF hr_value # None
                      THEN [main EXCEPT !.pc = "update",
                                        !.hr_value = hr_value]
                      ELSE NextScan
           /\ obs' = [op |-> "scan", user |-> Users[main.i].name,
                      hr_value |-> hr_value]
    /\ UNCHANGED <<now, store, last_save_times, last_published_values,
                   last_availability, broker, hist, monitor, channels,
                   device_values, user_values, last_hr_active_user, sensor,
                   lock, workers, bike, hrm, scanner>>

\* MqttMonitor._assign_shared_sensors, "Update user values if we have HR
\* data": the block under self.lock
UpdateUser ==
    /\ monitor = "mqtt"
    /\ main.pc = "update"
    /\ user_values' = AssignHr(user_values, Users[main.i], main.hr_value,
                               device_values, now)
    /\ main' = NextScan
    /\ obs' = [op |-> "update", user |-> Users[main.i].name,
               hr_value |-> main.hr_value]
    /\ UNCHANGED <<now, store, last_save_times, last_published_values,
                   last_availability, broker, hist, monitor, channels,
                   device_values, last_hr_active_user, sensor, lock, workers,
                   bike, hrm, scanner>>

\* the main thread after the shared-device step
AfterShared(mon) ==
    [pc |-> IF mon = "mqtt" THEN "publish" ELSE "display", i |-> 1,
     hr_value |-> None, target |-> None]

\* _assign_shared_sensors, "Handle shared wattbike sensors": reads
\* last_hr_active_user without the lock and returns when there is none
SharedRead ==
    /\ main.pc = "shared"
    /\ LET target == SharedTarget(Users, Wattbike, last_hr_active_user)
       IN  /\ main' = IF target = None THEN AfterShared(monitor)
                      ELSE [main EXCEPT !.pc = "shared_update",
                                        !.target = target]
           /\ obs' = [op |-> "shared_read", target |-> target]
    /\ UNCHANGED <<now, store, last_save_times, last_published_values,
                   last_availability, broker, hist, monitor, channels,
                   device_values, user_values, last_hr_active_user, sensor,
                   lock, workers, bike, hrm, scanner>>

\* _assign_shared_sensors, the block under self.lock that copies the shared
\* values onto the target and stamps its update time
SharedUpdate ==
    /\ main.pc = "shared_update"
    /\ user_values' = AssignShared(user_values, main.target[1], Wattbike,
                                   device_values, now)
    /\ main' = AfterShared(monitor)
    /\ obs' = [op |-> "shared_update", target |-> main.target,
               before |-> user_values]
    /\ hist' = [hist EXCEPT !.shared = @ \union {main.target[1]}]
    /\ UNCHANGED <<now, store, last_save_times, last_published_values,
                   last_availability, broker, monitor, channels,
                   device_values, last_hr_active_user, sensor, lock, workers,
                   bike, hrm, scanner>>

\* mutant: no user is ever found stale
Stale_Never(t, updated) == FALSE

\* "Offline detection": (time.time() - updated) > self.stale_secs
Stale(t, updated) == (t - updated) > stale_secs

\* MqttMonitor.run, the block under self.lock: for every user of the store,
\* in the order the users entered it (the order of the configuration),
\* publish what changed and the availability. The sink accepts every call
\* of the block (sink_up) or raises on each.
PublishAll(sink_up) ==
    LET RECURSIVE Go(_, _)
        Go(i, st) ==
            IF i > Len(Users) THEN st
            ELSE IF Users[i].name \notin DOMAIN user_values
            THEN Go(i + 1, st)
            ELSE
            LET name    == Users[i].name
                vals    == user_values[name]
                updated == vals.updated
                none    == [calls |-> <<>>, raised |-> {}, la |-> st.la]
                pub     == IF updated # 0
                           THEN PublishUserMetrics(st.lpv, name, vals)
                           ELSE [calls |-> <<>>, lpv |-> st.lpv]
                on      == IF updated # 0
                           THEN Availability(st.la, name, TRUE, sink_up)
                           ELSE none
                off     == IF Stale(now, updated)
                           THEN Availability(on.la, name, FALSE, sink_up)
                           ELSE [none EXCEPT !.la = on.la]
            IN  Go(i + 1, [la |-> off.la, lpv |-> pub.lpv,
                           calls |-> st.calls \o pub.calls \o on.calls
                                     \o off.calls])
    IN  Go(1, [la |-> last_availability, lpv |-> last_published_values,
               calls |-> <<>>])

Publish(sink_up) ==
    /\ monitor = "mqtt"
    /\ main.pc = "publish"
    /\ LET r == PublishAll(sink_up)
           raised == IF sink_up THEN {} ELSE Topics(r.calls)
           escaped == ExceptPass(raised)
       IN  /\ last_availability' = r.la
           /\ last_published_values' = r.lpv
           /\ broker' = Deliver(broker, r.calls, raised)
           /\ obs' = [op |-> "publish", calls |-> r.calls,
                      sink_up |-> sink_up, raised |-> raised,
                      escaped |-> escaped]
           /\ main' = [main EXCEPT !.pc = IF escaped = {} THEN "sleep"
                                          ELSE "crashed"]
    /\ UNCHANGED <<now, store, last_save_times, hist, monitor, channels,
                   device_values, user_values, last_hr_active_user, sensor,
                   lock, workers, bike, hrm, scanner>>

\* LiveMonitor.run_curses, "Update HR-linked values for users", under
\* self.lock: a nonzero heart rate makes the user the active one and is
\* written to the user store; the owned sensors are not copied
DisplayAll ==
    LET RECURSIVE Go(_, _)
        Go(i, st) ==
            IF i > Len(Users) THEN st
            ELSE
            LET name   == DictGet(Users[i], "name", "Unknown")
                hr_val == ScanHr(Users[i], device_values)
            IN  IF hr_val # None /\ hr_val # Some(0)
                THEN Go(i + 1,
                        [lhau |-> Some(name),
                         uvs  |-> DictSet(st.uvs, name,
                                    [DictGet(st.uvs, name, NewUserValues)
                                        EXCEPT !.hr = hr_val,
                                               !.updated = now])])
                ELSE Go(i + 1, st)
    IN  Go(1, [lhau |-> last_hr_active_user, uvs |-> user_values])

Display ==
    /\ monitor = "live"
    /\ main.pc = "display"
    /\ last_hr_active_user' = DisplayAll.lhau
    /\ user_values' = DisplayAll.uvs
    /\ main' = [main EXCEPT !.pc = "sleep"]
    /\ obs' = [op |-> "display"]
    /\ UNCHANGED <<now, store, last_save_times, last_published_values,
                   last_availability, broker, hist, monitor, channels,
                   device_values, sensor, lock, workers, bike, hrm, scanner>>

\* time.sleep(0.5) at the end of a loop iteration: the clock, in whole
\* seconds, stays or moves on by one
Sleep(dt) ==
    /\ main.pc = "sleep"
    /\ now + dt <= MaxMonitorTime
    /\ now' = now + dt
    /\ main' = LoopStart(monitor)
    /\ obs' = [op |-> "sleep"]
    /\ UNCHANGED <<store, last_save_times, last_published_values,
                   last_availability, broker, hist, monitor, channels,
                   device_values, user_values, last_hr_active_user, sensor,
                   lock, workers, bike, hrm, scanner>>

\* While a monitor runs the sink accepts every call and the radio answers
\* every channel-id request; the file I/O succeeds. What the handlers do
\* when the sink raises or the I/O fails is explored by SpecPublish,
\* SpecAvailability and SpecSave.
SinkOutcomes == {TRUE}

ChannelIdOutcomes == {TRUE}

Next ==
    \/ OpenChannel
    \/ \E ok \in SinkOutcomes : InitUser(ok)
    \/ \E c \in 1..Len(channels) :
         \E data \in Packets(channels[c]), id_ok \in ChannelIdOutcomes,
            ok \in SinkOutcomes :
                OnBroadcast(c, data, id_ok, "ok", ok)
    \/ ScanUser
    \/ UpdateUser
    \/ SharedRead
    \/ SharedUpdate
    \/ \E sink_up \in SinkOutcomes : Publish(sink_up)
    \/ Display
    \/ \E dt \in {0, 1} : Sleep(dt)

Spec == InitMonitor /\ [][Next]_vars

----------------------------------------------------------------------------
(* Start-up of the three monitor classes and their heart-rate device to    *)
(* user lookup. The sink can refuse the offline message of a user.         *)

\* the device ids _user_for_hr is asked about: every configured device and
\* one that the configuration does not name
ProbeIds == {100, 101, 102, 111, 120, 999}

InitSetup ==
    /\ monitor \in {"mqtt", "live", "legacy"}
    /\ now = StartTime
    /\ store = MissingFile
    /\ last_save_times = EmptyDict
    /\ last_published_values = EmptyDict
    /\ last_availability = EmptyDict
    /\ broker = EmptyDict
    /\ obs = [op |-> "init"]
    /\ hist = NoHistory
    /\ channels = <<>>
    /\ device_values = EmptyDict
    /\ user_values = EmptyDict
    /\ last_hr_active_user = None
    /\ main = [pc |-> "setup", i |-> 1, hr_value |-> None, target |-> None]
    /\ sensor = [sample |-> 0, delivered |-> 0]
    /\ lock = None
    /\ workers = NoWorkers
    /\ bike = NewBikeSensor
    /\ hrm = NewHeartRateMonitor
    /\ scanner = NewScanner

\* self._user_for_hr(hr_device_id)
LookupUser(hr_device_id) ==
    /\ monitor # "none"
    /\ obs' = [op |-> "_user_for_hr", hr_device_id |-> hr_device_id,
               result |-> UserForHr(monitor, hr_device_id)]
    /\ UNCHANGED <<now, store, last_save_times, last_published_values,
                   last_availability, broker, hist, monitor_vars>>

NextSetup ==
    \/ OpenChannel
    \/ \E ok \in BOOLEAN : InitUser(ok)
    \/ \E id \in ProbeIds : LookupUser(id)

SpecSetup == InitSetup /\ [][NextSetup]_vars

----------------------------------------------------------------------------
(* The monitor with its threads: start() hands node.start to one thread    *)
(* ("openant.easy.main"), which runs the packet callbacks, and run() stays *)
(* on the main thread. The callbacks are followed statement by statement,  *)
(* on two threads for packets of different devices, with self.lock; the    *)
(* main thread can be interrupted (KeyboardInterrupt) anywhere in its loop *)
(* and then runs stop().                                                   *)

\* the callbacks the node thread makes in one run
MaxCallbacks == 2

\* mutant: the record of the device replaces the whole store
Upsert_Replace(dvs, ch, parsed) ==
    [id \in {ch.device_id} |->
        [label |-> ch.label, device_type |-> ch.device_type,
         device_id |-> ch.device_id] @@ parsed]

\* dv = self.device_values.get(device_id, {}); dv.update(parsed); dv[...] =
\* ...; self.device_values[device_id] = dv
Upsert(dvs, ch, parsed) ==
    DictSet(dvs, ch.device_id,
            [label |-> ch.label, device_type |-> ch.device_type,
             device_id |-> ch.device_id]
            @@ parsed @@ DictGet(dvs, ch.device_id, EmptyDict))

\* mutant: `with self.lock` does not wait
CanAcquire_Always(l) == TRUE

\* threading.Lock: acquire returns when no thread holds the lock
CanAcquire(l) == l = None

\* setup is through: every configured channel is open, every user is in
\* the user store and (MqttMonitor) has been published offline
InitThreads ==
    /\ monitor \in {"mqtt", "live"}
    /\ now = StartTime
    /\ store = MissingFile
    /\ last_save_times = EmptyDict
    /\ last_published_values = EmptyDict
    /\ last_availability =
          IF monitor = "mqtt" THEN [u \in UserNames |-> Some(FALSE)]
          ELSE EmptyDict
    /\ broker = IF monitor = "mqtt"
                THEN [t \in {AvailabilityTopic(u) : u \in UserNames}
                         |-> "offline"]
                ELSE EmptyDict
    /\ obs = [op |-> "init"]
    /\ hist = NoHistory
    /\ channels = [k \in 1..Len(SelectSeq(SetupProgram,
                                          LAMBDA st : st.op = "open")) |->
                     LET st == SelectSeq(SetupProgram,
                                         LAMBDA x : x.op = "open")[k]
                     IN  [device_id |-> st.device_id,
                          device_type |-> st.device_type,
                          label |-> st.label]]
    /\ device_values = EmptyDict
    /\ user_values = [u \in UserNames |-> NewUserValues]
    /\ last_hr_active_user = None
    /\ main = LoopStart(monitor)
    /\ sensor = [sample |-> 0, delivered |-> 0]
    /\ lock = None
    /\ workers = NoWorkers
    /\ bike = NewBikeSensor
    /\ hrm = NewHeartRateMonitor
    /\ scanner = NewScanner

\* the node thread takes a packet of channel c off its queue and calls
\* on_broadcast(data) on thread w; packets of one device are handled one
\* after the other
Dispatch(w, c, data) ==
    LET ch == channels[c]
    IN  /\ workers[w].pc = "idle"
        /\ sensor.delivered < MaxCallbacks
        /\ \A v \in Workers :
              workers[v].pc # "idle" => workers[v].ch.device_id # ch.device_id
        /\ workers' = [workers EXCEPT ![w] =
                          [IdleWorker EXCEPT !.pc = "acquire", !.ch = ch,
                                             !.data = data]]
        /\ sensor' = [delivered |-> sensor.delivered + 1,
                       sample |-> IF ch.device_type \in {121, 122, 123}
                                     /\ sensor.sample < Len(BikeScript)
                                     /\ data = BikePacket(
                                            BikeScript[sensor.sample + 1])
                                  THEN sensor.sample + 1
                                  ELSE sensor.sample]
        /\ hist' = [hist EXCEPT !.overlap =
                       @ \/ \E v \in Workers : workers[v].pc # "idle"]
        /\ obs' = [op |-> "dispatch", worker |-> w,
                   device_id |-> ch.device_id]
        /\ UNCHANGED <<now, store, last_save_times, last_published_values,
                       last_availability, broker, monitor, channels,
                       device_values, user_values, last_hr_active_user, main,
                       lock, bike, hrm, scanner>>

\* on_broadcast: `with self.lock:`, the decoding of the packet and the
\* update of self.device_values
AcquireUpsert(w) ==
    LET ch     == workers[w].ch
        data   == workers[w].data
        prev   == DictGet(device_values, ch.device_id, EmptyDict)
        parsed == Parse(monitor, ch.device_type, prev, data)
        fields == [label |-> ch.label, device_type |-> ch.device_type,
                   device_id |-> ch.device_id]
    IN  /\ workers[w].pc = "acquire"
        /\ CanAcquire(lock)
        /\ lock' = Some(w)
        /\ device_values' = Upsert(device_values, ch, parsed)
        /\ workers' = [workers EXCEPT ![w].pc = "request_id"]
        /\ hist' = [hist EXCEPT
                       !.replay = DictSet(@, ch.device_id,
                                      fields @@ parsed
                                      @@ DictGet(@, ch.device_id, EmptyDict)),
                       !.hr_seen = IF ch.device_type = 120 /\ HasByte(data, 7)
                                      /\ Byte(data, 7) # 0
                                   THEN @ \union {ch.device_id} ELSE @,
                       !.last_hr = IF ch.device_type = 120 /\ HasByte(data, 7)
                                      /\ Byte(data, 7) # 0
                                   THEN Some(ch.device_id) ELSE @,
                       !.last_from = IF ch.device_type = 120
                                        /\ HasByte(data, 7)
                                     THEN Some(ch.device_id) ELSE @]
        /\ obs' = [op |-> "upsert", worker |-> w,
                   device_id |-> ch.device_id]
        /\ UNCHANGED <<now, store, last_save_times, last_published_values,
                       last_availability, broker, monitor, channels,
                       user_values, last_hr_active_user, main, sensor, bike,
                       hrm, scanner>>

\* on_broadcast: ch.request_message(Message.ID.RESPONSE_CHANNEL_ID); when it
\* raises (~id_ok) nothing is saved
RequestId(w, id_ok) ==
    /\ workers[w].pc = "request_id"
    /\ workers' = [workers EXCEPT ![w].pc = IF id_ok THEN "save_read"
                                            ELSE "active"]
    /\ obs' = [op |-> "request_id", worker |-> w]
    /\ UNCHANGED <<now, store, last_save_times, last_published_values,
                   last_availability, broker, hist, monitor, channels,
                   device_values, user_values, last_hr_active_user, main,
                   sensor, lock, bike, hrm, scanner>>

\* the metadata on_broadcast hands to deep_merge_save
SaveExtra(data) ==
    LET extra == ParseCommonPages(data)
    IN  IF extra # EmptyDict THEN Some(extra) ELSE None

\* deep_merge_save up to and including json.load: the rate limit, then the
\* content of the file is read
SaveRead(w) ==
    LET ch == workers[w].ch
        r  == DeepMergeSave(store, last_save_times, ch.device_id,
                            ch.device_type, 1, SaveExtra(workers[w].data),
                            DefaultManufacturers, Some(MonitorRateLimitSecs),
                            now, "ok")
    IN  /\ workers[w].pc = "save_read"
        /\ last_save_times' = r.lst
        /\ workers' = [workers EXCEPT ![w] =
                          IF r.result = "rate_limited"
                          THEN [@ EXCEPT !.pc = "active"]
                          ELSE [@ EXCEPT !.pc = "save_write",
                                         !.existing = store, !.t = now]]
        /\ obs' = [op |-> "save_read", worker |-> w, result |-> r.result]
        /\ UNCHANGED <<now, store, last_published_values, last_availability,
                       broker, hist, monitor, channels, device_values,
                       user_values, last_hr_active_user, main, sensor, lock,
                       bike, hrm, scanner>>

\* deep_merge_save from the merge on: what was read, with the record of
\* this device merged in, replaces the file
SaveWrite(w, io) ==
    LET ch   == workers[w].ch
        rk   == record_key(ch.device_type, ch.device_id)
        base == BaseRecord(ch.device_id, ch.device_type, 1,
                           SaveExtra(workers[w].data), DefaultManufacturers,
                           workers[w].t)
    IN  /\ workers[w].pc = "save_write"
        /\ store' = WriteFile(workers[w].existing, rk, base, io)
        /\ workers' = [workers EXCEPT ![w].pc = "active"]
        /\ hist' = [hist EXCEPT !.writes = IF io = "ok" THEN @ \union {rk}
                                           ELSE @]
        /\ obs' = [op |-> "save_write", worker |-> w, rk |-> rk, io |-> io]
        /\ UNCHANGED <<now, last_save_times, last_published_values,
                       last_availability, broker, monitor, channels,
                       device_values, user_values, last_hr_active_user, main,
                       sensor, lock, bike, hrm, scanner>>

\* the MQTT client after stop() has called loop_stop() and disconnect()
Disconnected == main.pc = "stopped"

\* on_broadcast, "Update HR active user", with the availability message of
\* MqttMonitor; ok: the sink accepts it
Active(w, ok) ==
    LET ch     == workers[w].ch
        dv     == DictGet(device_values, ch.device_id, EmptyDict)
        active == HrActive(monitor, ch.device_type, dv)
        user   == user_for_hr(ch.device_id)
        r      == IF monitor = "mqtt" /\ active /\ user # None
                     /\ user # Some("")
                  THEN Availability(last_availability, user[1], TRUE,
                                    ok /\ ~Disconnected)
                  ELSE [calls |-> <<>>, raised |-> {},
                        la |-> last_availability]
    IN  /\ workers[w].pc = "active"
        /\ last_hr_active_user' = IF active THEN user
                                  ELSE last_hr_active_user
        /\ last_availability' = r.la
        /\ broker' = Deliver(broker, r.calls, r.raised)
        /\ workers' = [workers EXCEPT ![w].pc = "release"]
        /\ obs' = [op |-> "active", worker |-> w, calls |-> r.calls]
        /\ UNCHANGED <<now, store, last_save_times, last_published_values,
                       hist, monitor, channels, device_values, user_values,
                       main, sensor, lock, bike, hrm, scanner>>

\* mutant: the callback returns without giving up the lock
Release_KeepLock(w) ==
    /\ workers[w].pc = "release"
    /\ workers' = [workers EXCEPT ![w] = IdleWorker]
    /\ obs' = [op |-> "release", worker |-> w]
    /\ UNCHANGED <<now, store, last_save_times, last_published_values,
                   last_availability, broker, hist, monitor, channels,
                   device_values, user_values, last_hr_active_user, main,
                   sensor, lock, bike, hrm, scanner>>

\* on_broadcast: the end of the `with self.lock` block
Release(w) ==
    /\ workers[w].pc = "release"
    /\ lock' = IF lock = Some(w) THEN None ELSE lock
    /\ workers' = [workers EXCEPT ![w] = IdleWorker]
    /\ obs' = [op |-> "release", worker |-> w]
    /\ UNCHANGED <<now, store, last_save_times, last_published_values,
                   last_availability, broker, hist, monitor, channels,
                   device_values, user_values, last_hr_active_user, main,
                   sensor, bike, hrm, scanner>>

\* MqttMonitor.run: `with self.lock:` and the publish loop; the lock is
\* held until the block is left
PublishLocked(sink_up) ==
    /\ monitor = "mqtt"
    /\ main.pc = "publish"
    /\ CanAcquire(lock)
    /\ lock' = Some("main")
    /\ LET r == PublishAll(sink_up)
       IN  /\ last_availability' = r.la
           /\ last_published_values' = r.lpv
           /\ broker' = Deliver(broker, r.calls,
                                IF sink_up THEN {} ELSE Topics(r.calls))
           /\ obs' = [op |-> "publish", calls |-> r.calls,
                      sink_up |-> sink_up]
    /\ main' = [main EXCEPT !.pc = "unlock"]
    /\ UNCHANGED <<now, store, last_save_times, hist, monitor, channels,
                   device_values, user_values, last_hr_active_user, sensor,
                   workers, bike, hrm, scanner>>

\* MqttMonitor.run: the end of the `with self.lock` block
Unlock ==
    /\ main.pc = "unlock"
    /\ lock' = IF lock = Some("main") THEN None ELSE lock
    /\ main' = [main EXCEPT !.pc = "sleep"]
    /\ obs' = [op |-> "unlock"]
    /\ UNCHANGED <<now, store, last_save_times, last_published_values,
                   last_availability, broker, hist, monitor, channels,
                   device_values, user_values, last_hr_active_user, sensor,
                   workers, bike, hrm, scanner>>

\* where the main thread is while it is inside the loop of run()
LoopPcs == {"scan", "update", "shared", "shared_update", "publish",
            "unlock", "sleep"}

\* KeyboardInterrupt reaches the main thread of MqttMonitor.run inside the
\* loop: a `with self.lock` block it is in is left, and `finally` calls
\* stop(), which sets stop_event
Interrupt ==
    /\ monitor = "mqtt"
    /\ main.pc \in LoopPcs
    /\ main' = [pc |-> "stop_close", i |-> 1, hr_value |-> None,
                target |-> None]
    /\ lock' = IF lock = Some("main") THEN None ELSE lock
    /\ obs' = [op |-> "interrupt"]
    /\ UNCHANGED <<now, store, last_save_times, last_published_values,
                   last_availability, broker, hist, monitor, channels,
                   device_values, user_values, last_hr_active_user, sensor,
                   workers, bike, hrm, scanner>>

\* stop(): every channel is closed and self.channels cleared
StopClose ==
    /\ main.pc = "stop_close"
    /\ channels' = <<>>
    /\ main' = [main EXCEPT !.pc = "stop_node"]
    /\ obs' = [op |-> "stop_close", closed |-> Len(channels)]
    /\ UNCHANGED <<now, store, last_save_times, last_published_values,
                   last_availability, broker, hist, monitor, device_values,
                   user_values, last_hr_active_user, sensor, lock, workers,
                   bike, hrm, scanner>>

\* the users stop() marks offline: list(self.user_values.keys())
StopUsers ==
    SelectSeq([i \in 1..Len(Users) |-> Users[i].name],
              LAMBDA u : u \in DOMAIN user_values)

\* stop(): self.node.stop(); the thread that runs the callbacks is not
\* joined
StopNode ==
    /\ main.pc = "stop_node"
    /\ main' = [main EXCEPT !.pc = IF StopUsers = <<>>
                                   THEN "stop_disconnect"
                                   ELSE "stop_availability", !.i = 1]
    /\ obs' = [op |-> "stop_node"]
    /\ UNCHANGED <<now, store, last_save_times, last_published_values,
                   last_availability, broker, hist, monitor, channels,
                   device_values, user_values, last_hr_active_user, sensor,
                   lock, workers, bike, hrm, scanner>>

\* stop(), "Mark users offline": self._availability(user, False) for the
\* next user, without the lock
StopAvailability(ok) ==
    /\ main.pc = "stop_availability"
    /\ LET user == StopUsers[main.i]
           r    == Availability(last_availability, user, FALSE, ok)
       IN  /\ last_availability' = r.la
           /\ broker' = Deliver(broker, r.calls, r.raised)
           /\ obs' = [op |-> "stop_availability", user |-> user,
                      calls |-> r.calls]
    /\ main' = IF main.i < Len(StopUsers) THEN [main EXCEPT !.i = @ + 1]
               ELSE [main EXCEPT !.pc = "stop_disconnect"]
    /\ UNCHANGED <<now, store, last_save_times, last_published_values, hist,
                   monitor, channels, device_values, user_values,
                   last_hr_active_user, sensor, lock, workers, bike,
                   hrm, scanner>>

\* stop(): mqtt_client.loop_stop() and disconnect(); stop() returns
StopDisconnect ==
    /\ main.pc = "stop_disconnect"
    /\ main' = [main EXCEPT !.pc = "stopped"]
    /\ obs' = [op |-> "stopped"]
    /\ UNCHANGED <<now, store, last_save_times, last_published_values,
                   last_availability, broker, hist, monitor, channels,
                   device_values, user_values, last_hr_active_user, sensor,
                   lock, workers, bike, hrm, scanner>>

NextThreads ==
    \/ \E w \in Workers, c \in 1..Len(channels) :
         \E data \in Packets(channels[c]) : Dispatch(w, c, data)
    \/ \E w \in Workers : AcquireUpsert(w)
    \/ \E w \in Workers, id_ok \in ChannelIdOutcomes : RequestId(w, id_ok)
    \/ \E w \in Workers : SaveRead(w)
    \/ \E w \in Workers : SaveWrite(w, "ok")
    \/ \E w \in Workers, ok \in SinkOutcomes : Active(w, ok)
    \/ \E w \in Workers : Release(w)
    \/ ScanUser
    \/ CanAcquire(lock) /\ UpdateUser
    \/ SharedRead
    \/ CanAcquire(lock) /\ SharedUpdate
    \/ \E sink_up \in SinkOutcomes : PublishLocked(sink_up)
    \/ Unlock
    \/ CanAcquire(lock) /\ Display
    \/ Sleep(0)
    \/ Interrupt
    \/ StopClose
    \/ StopNode
    \/ \E ok \in SinkOutcomes : StopAvailability(ok)
    \/ StopDisconnect

SpecThreads == InitThreads /\ [][NextThreads]_vars

\* the steps of the callback running on thread w
WorkerStep(w) ==
    \/ AcquireUpsert(w)
    \/ \E id_ok \in ChannelIdOutcomes : RequestId(w, id_ok)
    \/ SaveRead(w)
    \/ SaveWrite(w, "ok")
    \/ \E ok \in SinkOutcomes : Active(w, ok)
    \/ Release(w)

\* the steps of the thread of run() / run_curses() inside its loop
MainStep ==
    \/ ScanUser
    \/ CanAcquire(lock) /\ UpdateUser
    \/ SharedRead
    \/ CanAcquire(lock) /\ SharedUpdate
    \/ \E sink_up \in SinkOutcomes : PublishLocked(sink_up)
    \/ Unlock
    \/ CanAcquire(lock) /\ Display
    \/ Sleep(0)

\* the packets the lock protocol is followed with: the heart-rate page,
\* after which a callback goes through every step of its locked block
LockPackets == {HrPacket(70)}

NextLock ==
    \/ \E w \in Workers, c \in 1..Len(channels) :
         \E data \in Packets(channels[c]) \cap LockPackets :
            Dispatch(w, c, data)
    \/ \E w \in Workers : WorkerStep(w)
    \/ MainStep
    \/ Interrupt
    \/ StopClose
    \/ StopNode
    \/ \E ok \in SinkOutcomes : StopAvailability(ok)
    \/ StopDisconnect

\* every thread goes on running, and a thread blocked in lock.acquire() gets
\* the lock when it is released again and again
SpecLock ==
    /\ InitThreads
    /\ [][NextLock]_vars
    /\ SF_vars(MainStep)
    /\ \A w \in Workers : SF_vars(WorkerStep(w))

----------------------------------------------------------------------------
(* The running monitor with a sink that can refuse a block of calls, a     *)
(* radio that can fail to answer the channel-id request and a file whose   *)
(* I/O can fail; the handlers are atomic, as in Spec.                      *)

NextFaults ==
    \/ \E c \in 1..Len(channels) :
         \E data \in Packets(channels[c]), id_ok \in BOOLEAN,
            io \in IoOutcomes, ok \in BOOLEAN :
                sensor.delivered < MaxCallbacks
                    /\ OnBroadcast(c, data, id_ok, io, ok)
    \/ ScanUser
    \/ UpdateUser
    \/ SharedRead
    \/ SharedUpdate
    \/ \E sink_up \in BOOLEAN : Publish(sink_up)
    \/ Display
    \/ \E dt \in {0, 1} : Sleep(dt)

SpecFaults == InitThreads /\ [][NextFaults]_vars

\* ---- MqttMonitor.run for as long as no stop signal comes. The clock is
\* kept relative so that time can pass without end: when a second passes
\* the stored update times move back by one instead of `now` moving on, and
\* an update time further back than stale_secs + 1 is kept at that distance
\* (the loop compares it with stale_secs only); 0 stays "never".

\* the age from which on update times are not told apart
Horizon == stale_secs + 1

Older(updated) ==
    IF updated = 0 THEN 0
    ELSE IF now - updated >= Horizon THEN updated ELSE updated - 1

\* time.sleep(0.5) at the end of a loop iteration; dt = 1: a second has
\* passed since the previous iteration
SleepOn(dt) ==
    /\ main.pc = "sleep"
    /\ user_values' =
          IF dt = 0 THEN user_values
          ELSE [u \in DOMAIN user_values |->
                   [user_values[u] EXCEPT !.updated = Older(@)]]
    /\ main' = LoopStart(monitor)
    /\ obs' = [op |-> "sleep", dt |-> dt]
    /\ UNCHANGED <<now, store, last_save_times, last_published_values,
                   last_availability, broker, hist, monitor, channels,
                   device_values, last_hr_active_user, sensor, lock, workers,
                   bike, hrm, scanner>>

\* the steps of the loop of run()
LoopStep ==
    \/ ScanUser
    \/ UpdateUser
    \/ SharedRead
    \/ SharedUpdate
    \/ Publish(TRUE)
    \/ \E dt \in {0, 1} : SleepOn(dt)

\* packets arrive, MaxCallbacks of them, and then the sensors are silent;
\* the channel-id request of a packet goes unanswered
NextSilent ==
    \/ \E c \in 1..Len(channels) :
         \E data \in Packets(channels[c]) :
                sensor.delivered < MaxCallbacks
                    /\ OnBroadcast(c, data, FALSE, "ok", TRUE)
    \/ LoopStep

\* the thread of run() is never stopped: it keeps taking its next step, and
\* of its sleeps some always cross a second boundary
SpecSilent ==
    /\ InitThreads
    /\ [][NextSilent]_vars
    /\ WF_vars(LoopStep)
    /\ SF_vars(SleepOn(1))

----------------------------------------------------------------------------
(* The speed/cadence decoders fed by one sensor: on_broadcast of a monitor *)
(* channel of type 121, 122 or 123, and BikeSensor._on_bike_data. The      *)
(* sensor counts event time (1/1024 s) and revolutions without bound and   *)
(* transmits the low 16 bits of both.                                      *)

MaxSamples == 3

\* event time and revolutions the sensor has counted when it is switched on
StartTicks == {0, 65530}

StartRevs == {0, 65534}

\* what the counters advance by between two packets
TickSteps == {0, 16, 1024, 65535}

RevSteps == {0, 1, 2}

\* BikeSensor(device_id, network_key): wheel_circumference = 2.1
wheel_circumference == <<21, 10>>

\* the page a speed/cadence sensor broadcasts: cadence event time and
\* count, speed event time and count, each 16 bits, low byte first
SensorPacket(ticks, revs) ==
    LET t == ticks % 65536
        r == revs % 65536
    IN  <<t % 256, t \div 256, r % 256, r \div 256,
          t % 256, t \div 256, r % 256, r \div 256>>

\* a + b of two floats
RatioAdd(a, b) == Ratio(a[1] * b[2] + b[1] * a[2], a[2] * b[2])

\* a monitor with one speed/cadence channel, or a BikeSensor; the sensor
\* has sent nothing yet
InitDecode ==
    /\ monitor \in {"mqtt", "live", "bike_sensor", "hr_monitor"}
    /\ now = StartTime
    /\ store = MissingFile
    /\ last_save_times = EmptyDict
    /\ last_published_values = EmptyDict
    /\ last_availability = EmptyDict
    /\ broker = EmptyDict
    /\ obs = [op |-> "init"]
    /\ hist = NoHistory
    /\ \E device_type \in {121, 122, 123} :
          channels = IF monitor \in {"bike_sensor", "hr_monitor"} THEN <<>>
                     ELSE <<[device_id |-> 120, device_type |-> device_type,
                             label |-> "Bike"]>>
    /\ device_values = EmptyDict
    /\ user_values = EmptyDict
    /\ last_hr_active_user = None
    /\ main = [pc |-> "none", i |-> 1, hr_value |-> None, target |-> None]
    /\ \E t \in StartTicks, r \in StartRevs :
          sensor = [sample |-> 0, delivered |-> 0, ticks |-> t, revs |-> r]
    /\ lock = None
    /\ workers = NoWorkers
    /\ bike = NewBikeSensor
    /\ hrm = NewHeartRateMonitor
    /\ scanner = NewScanner

\* on_broadcast(data) of the speed/cadence channel of a monitor; the sensor
\* has counted dt ticks and dr revolutions since its last packet, or the
\* packet arrives cut short
MonitorSample(dt, dr, short) ==
    LET ch     == channels[1]
        ticks  == sensor.ticks + dt
        revs   == sensor.revs + dr
        data   == IF short THEN ShortPacket ELSE SensorPacket(ticks, revs)
        prev   == DictGet(device_values, ch.device_id, EmptyDict)
        last   == Baseline(prev)
        saved  == DeepMergeSave(store, last_save_times, ch.device_id,
                                ch.device_type, 1, SaveExtra(data),
                                DefaultManufacturers,
                                Some(MonitorRateLimitSecs), now, "ok")
    IN  /\ monitor \in {"mqtt", "live"}
        /\ sensor.delivered < MaxSamples
        /\ sensor' = [sample |-> sensor.sample + (IF short THEN 0 ELSE 1),
                       delivered |-> sensor.delivered + 1,
                       ticks |-> IF short THEN sensor.ticks ELSE ticks,
                       revs |-> IF short THEN sensor.revs ELSE revs]
        /\ device_values' = Upsert(device_values, ch,
                                   Parse(monitor, ch.device_type, prev, data))
        /\ store' = saved.file
        /\ last_save_times' = saved.lst
        /\ obs' = [op |-> "sample", short |-> short,
                   first |-> last = None,
                   before |-> prev,
                   true_dt |-> IF short THEN 0 ELSE dt,
                   true_dr |-> IF short THEN 0 ELSE dr,
                   dt_ticks |-> IF short \/ last = None THEN 0
                                ELSE Delta16(ticks % 65536, last[1].evt_time),
                   d_revs |-> IF short \/ last = None THEN 0
                              ELSE Delta16(revs % 65536, last[1].revs)]
        /\ UNCHANGED <<now, last_published_values, last_availability, broker,
                       hist, monitor, channels, user_values,
                       last_hr_active_user, main, lock, workers, bike,
                       hrm, scanner>>

\* BikeSensor._on_bike_data(data); the on_bike_data callback is not set
OnBikeData(dt, dr, short) ==
    LET ticks == sensor.ticks + dt
        revs  == sensor.revs + dr
        data  == IF short THEN ShortPacket ELSE SensorPacket(ticks, revs)
        cadence_event_time       == U16(Byte(data, 0), Byte(data, 1))
        cadence_revolution_count == U16(Byte(data, 2), Byte(data, 3))
        speed_event_time         == U16(Byte(data, 4), Byte(data, 5))
        speed_revolution_count   == U16(Byte(data, 6), Byte(data, 7))
        cadence_time_diff ==
            Delta16(cadence_event_time, bike._last_cadence_event_time)
        cadence_rev_diff ==
            Delta16(cadence_revolution_count,
                    bike._last_cadence_revolution_count)
        speed_time_diff ==
            Delta16(speed_event_time, bike._last_speed_event_time)
        speed_rev_diff ==
            Delta16(speed_revolution_count, bike._last_speed_revolution_count)
        new_cadence == bike._last_cadence_event_time # 0
                       /\ cadence_time_diff > 0 /\ cadence_rev_diff > 0
        new_speed   == bike._last_speed_event_time # 0
                       /\ speed_time_diff > 0 /\ speed_rev_diff > 0
        circ == wheel_circumference
    IN  /\ monitor = "bike_sensor"
        /\ sensor.delivered < MaxSamples
        /\ sensor' = [sample |-> sensor.sample + (IF short THEN 0 ELSE 1),
                       delivered |-> sensor.delivered + 1,
                       ticks |-> IF short THEN sensor.ticks ELSE ticks,
                       revs |-> IF short THEN sensor.revs ELSE revs]
        /\ bike' =
              IF Len(data) < 8 THEN bike
              ELSE [bike EXCEPT
                      !.cadence = IF new_cadence
                                  THEN IntOf(Ratio(cadence_rev_diff * 1024 * 60,
                                                   cadence_time_diff))
                                  ELSE @,
                      !.speed = IF new_speed
                                THEN Ratio(speed_rev_diff * circ[1] * 1024 * 18,
                                           circ[2] * speed_time_diff * 5)
                                ELSE @,
                      !.distance = IF new_speed
                                   THEN RatioAdd(@, Ratio(speed_rev_diff * circ[1],
                                                          circ[2] * 1000))
                                   ELSE @,
                      !._last_cadence_event_time = cadence_event_time,
                      !._last_cadence_revolution_count =
                          cadence_revolution_count,
                      !._last_speed_event_time = speed_event_time,
                      !._last_speed_revolution_count = speed_revolution_count,
                      !.last_update = now]
        /\ obs' = [op |-> "bike_data", short |-> short,
                   first |-> bike._last_speed_event_time = 0,
                   before |-> bike,
                   true_dt |-> IF short THEN 0 ELSE dt,
                   true_dr |-> IF short THEN 0 ELSE dr,
                   dt_ticks |-> IF short \/ bike._last_speed_event_time = 0
                                THEN 0 ELSE speed_time_diff,
                   d_revs |-> IF short \/ bike._last_speed_event_time = 0
                              THEN 0 ELSE speed_rev_diff]
        /\ UNCHANGED <<now, store, last_save_times, last_published_values,
                       last_availability, broker, hist, monitor, channels,
                       device_values, user_values, last_hr_active_user, main,
                       lock, workers, hrm, scanner>>

\* the computed heart rates and R-R intervals a strap can send
HrValues == {0, 1, 72, 255}
RrValues == {0, 836}

\* a heart-rate page, laid out as in test_on_heart_rate_data
HeartRatePacket(hr, rr) == <<0, 16, 0, 0, rr % 256, rr \div 256, 32, hr>>

\* the last n elements of the list s
LastN(s, n) == IF Len(s) <= n THEN s ELSE SubSeq(s, Len(s) - n + 1, Len(s))

\* rr_intervals.append(rr_interval), then pop(0) while the list is longer
\* than 10
AppendRr(rr_intervals, rr_interval) == LastN(Append(rr_intervals, rr_interval), 10)

\* HeartRateMonitor._on_heart_rate_data(data)
OnHeartRateData(hr, rr, short) ==
    LET data        == IF short THEN ShortPacket ELSE HeartRatePacket(hr, rr)
        computed_hr == Byte(data, 7)
        rr_interval == U16(Byte(data, 4), Byte(data, 5))
        stored      == Len(data) >= 8 /\ computed_hr > 0
    IN  /\ monitor = "hr_monitor"
        /\ sensor.delivered < MaxSamples
        /\ sensor' = [sensor EXCEPT !.delivered = @ + 1,
                                    !.sample = @ + (IF short THEN 0 ELSE 1)]
        /\ hrm' =
              IF ~stored THEN hrm
              ELSE [hrm EXCEPT
                      !.heart_rate = computed_hr,
                      !.last_update = now,
                      !.rr_intervals = IF rr_interval > 0
                                       THEN AppendRr(@, rr_interval)
                                       ELSE @]
        /\ obs' = [op |-> "hr_data", data |-> data, before |-> hrm,
                   callback |-> IF stored
                                THEN Some([heart_rate |-> hrm'.heart_rate,
                                           beat_count |-> Byte(data, 6),
                                           rr_intervals |-> hrm'.rr_intervals,
                                           timestamp |-> hrm'.last_update])
                                ELSE None]
        /\ UNCHANGED <<now, store, last_save_times, last_published_values,
                       last_availability, broker, hist, monitor, channels,
                       device_values, user_values, last_hr_active_user, main,
                       lock, workers, bike, scanner>>

NextDecode ==
    \/ \E dt \in TickSteps, dr \in RevSteps : MonitorSample(dt, dr, FALSE)
    \/ MonitorSample(0, 0, TRUE)
    \/ \E dt \in TickSteps, dr \in RevSteps : OnBikeData(dt, dr, FALSE)
    \/ OnBikeData(0, 0, TRUE)
    \/ \E hr \in HrValues, rr \in RrValues : OnHeartRateData(hr, rr, FALSE)
    \/ OnHeartRateData(0, 0, TRUE)

SpecDecode == InitDecode /\ [][NextDecode]_vars

----------------------------------------------------------------------------
(* DeviceScanner: scan_for_devices has opened one wildcard channel per     *)
(* device type and waits; the node thread calls the channel callbacks, one *)
(* packet at a time.                                                       *)

\* the packets the scan channels deliver in one scan
MaxScanPackets == 6

\* requested_state["attempts"] < 5
MaxIdAttempts == 5

\* the scan channels followed here, with the device that the radio hears
\* on each
ScanChannels ==
    << [device_type |-> 120, name |-> "Heart Rate Monitor", device_id |-> 100],
       [device_type |-> 11, name |-> "Power Meter", device_id |-> 111] >>

\* a data page, a manufacturer page and a fragment
ScanPackets == {HrPacket(70), Page80Packet, <<0>>}

\* mutant: the channel id is requested on every packet
ShouldRequest_Always(requested_state) == TRUE

\* callback: not requested_state["done"] and requested_state["attempts"] < 5
ShouldRequest(requested_state) ==
    ~requested_state.done /\ requested_state.attempts < MaxIdAttempts

\* _on_device_found(data, device_type, device_name, chan_id) at time t: the
\* found_devices dict, the file and last_save_times after the call
OnDeviceFound(sc, file, data, device_type, device_name, chan_id, t, io) ==
    LET same == [found_devices |-> sc.found_devices, file |-> file,
                 lst |-> sc.last_save_times]
    IN  IF Len(data) < 2 \/ chan_id = None THEN same
        ELSE
        LET device_id  == chan_id[1][1]
            dev_type   == chan_id[1][2]
            trans_type == chan_id[1][3]
            device_key == record_key(dev_type, device_id)
            extra      == ParseCommonPages(data)
            save(e)    == DeepMergeSave(file, sc.last_save_times, device_id,
                                        dev_type, trans_type, e,
                                        DefaultManufacturers,
                                        Some(MonitorRateLimitSecs), t, io)
        IN  IF device_key \notin DOMAIN sc.found_devices
            THEN LET saved == save(IF DOMAIN extra # {} THEN Some(extra)
                                   ELSE None)
                 IN  [found_devices |->
                          DictSet(sc.found_devices, device_key,
                                  DictUpdate(
                                      [device_id |-> device_id,
                                       device_type |-> dev_type,
                                       transmission_type |-> trans_type,
                                       device_name |-> device_name,
                                       description |-> device_name,
                                       last_seen |-> t,
                                       signal_strength |-> "Good"], extra)),
                      file |-> saved.file, lst |-> saved.lst]
            ELSE LET seen == [sc.found_devices[device_key]
                                 EXCEPT !.last_seen = t]
                 IN  IF DOMAIN extra # {}
                     THEN [found_devices |->
                               DictSet(sc.found_devices, device_key,
                                       DictUpdate(seen, extra)),
                           file |-> save(Some(extra)).file,
                           lst |-> save(Some(extra)).lst]
                     ELSE [same EXCEPT !.found_devices =
                               DictSet(sc.found_devices, device_key, seen)]

\* scan_for_devices has set the channels up and enters its wait loop
InitScan ==
    /\ monitor = "scanner"
    /\ now = StartTime
    /\ store = MissingFile
    /\ last_save_times = EmptyDict
    /\ last_published_values = EmptyDict
    /\ last_availability = EmptyDict
    /\ broker = EmptyDict
    /\ obs = [op |-> "init"]
    /\ hist = NoHistory
    /\ channels = ScanChannels
    /\ device_values = EmptyDict
    /\ user_values = EmptyDict
    /\ last_hr_active_user = None
    /\ main = [pc |-> "wait", i |-> 1, hr_value |-> None, target |-> None,
               start_time |-> StartTime]
    /\ sensor = [sample |-> 0, delivered |-> 0]
    /\ lock = None
    /\ workers = NoWorkers
    /\ bike = NewBikeSensor
    /\ hrm = NewHeartRateMonitor
    /\ scanner = [NewScanner EXCEPT
                     !.scanning = TRUE,
                     !.requested_state =
                         [k \in 1..Len(ScanChannels) |->
                             [done |-> FALSE, attempts |-> 0]]]

\* callback(data) of scan channel k, made by make_callback; answered: the
\* radio answers a channel-id request (request_channel_id returns None
\* otherwise); io: the outcome of the file I/O of deep_merge_save
ScanCallback(k, data, answered, io) ==
    LET ch      == ScanChannels[k]
        st      == scanner.requested_state[k]
        asks    == ShouldRequest(st)
        chan_id == IF asks /\ answered
                   THEN Some(<<ch.device_id, ch.device_type, 1>>)
                   ELSE None
        st2     == IF ~asks THEN st
                   ELSE IF chan_id # None THEN [st EXCEPT !.done = TRUE]
                   ELSE [st EXCEPT !.attempts = @ + 1]
        found   == OnDeviceFound(scanner, store, data, ch.device_type,
                                 ch.name, chan_id, now, io)
        Count(d) == DictGet(d, k, 0)
    IN  /\ monitor = "scanner"
        /\ k \in DOMAIN scanner.requested_state
        /\ k \in DOMAIN channels
        /\ sensor.delivered < MaxScanPackets
        /\ sensor' = [sensor EXCEPT !.delivered = @ + 1]
        /\ scanner' = [scanner EXCEPT
                          !.requested_state[k] = st2,
                          !.found_devices = found.found_devices,
                          !.last_save_times = found.lst]
        /\ store' = found.file
        /\ hist' = IF ~asks THEN hist
                   ELSE [hist EXCEPT
                           !.id_ok = IF answered
                                     THEN DictSet(@, k, Count(@) + 1) ELSE @,
                           !.id_failed = IF ~answered
                                         THEN DictSet(@, k, Count(@) + 1)
                                         ELSE @,
                           !.id_late = IF Count(hist.id_ok) > 0
                                       THEN DictSet(@, k, Count(@) + 1)
                                       ELSE @]
        /\ obs' = [op |-> "scan_callback", channel |-> k, data |-> data,
                   asked |-> asks, chan_id |-> chan_id, t |-> now]
        /\ UNCHANGED <<now, last_save_times, last_published_values,
                       last_availability, broker, monitor, channels,
                       device_values, user_values, last_hr_active_user, main,
                       lock, workers, bike, hrm>>

\* the seconds a scan lasts (the constructor's scan_timeout)
scan_timeout == 1

\* while self.scanning and (time.time() - start_time) < self.scan_timeout
ScanLoopCondition ==
    scanner.scanning /\ (now - main.start_time) < scan_timeout

\* one iteration of the wait loop: the loop condition holds, then
\* time.sleep(0.1), here across a second boundary
ScanWait ==
    /\ monitor = "scanner"
    /\ main.pc = "wait"
    /\ ScanLoopCondition
    /\ now' = now + 1
    /\ obs' = [op |-> "scan_wait"]
    /\ UNCHANGED <<store, last_save_times, last_published_values,
                   last_availability, broker, hist, monitor_vars>>

NextScanner ==
    \/ \E k \in 1..Len(ScanChannels), data \in ScanPackets,
          answered \in BOOLEAN, io \in IoOutcomes :
            ScanCallback(k, data, answered, io)
    \/ ScanWait

SpecScan == InitScan /\ [][NextScanner]_vars

\* ---- scan_for_devices() from its first line to its return, with a second
\* thread that calls stop_scan()

\* scan_for_devices() has been entered; no channel is open yet
InitStop ==
    /\ monitor = "scanner"
    /\ now = StartTime
    /\ store = MissingFile
    /\ last_save_times = EmptyDict
    /\ last_published_values = EmptyDict
    /\ last_availability = EmptyDict
    /\ broker = EmptyDict
    /\ obs = [op |-> "init"]
    /\ hist = NoHistory
    /\ channels = <<>>
    /\ device_values = EmptyDict
    /\ user_values = EmptyDict
    /\ last_hr_active_user = None
    /\ main = [pc |-> "scan_setup", i |-> 1, hr_value |-> None,
               target |-> None, start_time |-> 0]
    /\ sensor = [sample |-> 0, delivered |-> 0]
    /\ lock = None
    /\ workers = NoWorkers
    /\ bike = NewBikeSensor
    /\ hrm = NewHeartRateMonitor
    /\ scanner = NewScanner

\* scan_for_devices() up to its wait loop: the node is created and started,
\* a channel is opened per device type with its callback, then
\* self.scanning = True and start_time = time.time()
ScanBegin ==
    /\ monitor = "scanner"
    /\ main.pc = "scan_setup"
    /\ channels' = ScanChannels
    /\ scanner' = [scanner EXCEPT
                      !.scanning = TRUE,
                      !.requested_state =
                          [k \in 1..Len(ScanChannels) |->
                              [done |-> FALSE, attempts |-> 0]]]
    /\ main' = [main EXCEPT !.pc = "wait", !.start_time = now]
    /\ obs' = [op |-> "scan_begin", stop_called |-> hist.stop_called]
    /\ UNCHANGED <<now, store, last_save_times, last_published_values,
                   last_availability, broker, hist, monitor, device_values,
                   user_values, last_hr_active_user, sensor, lock, workers,
                   bike, hrm>>

\* stop_scan(), called once by another thread: self.scanning = False
StopScan ==
    /\ monitor = "scanner"
    /\ ~hist.stop_called
    /\ scanner' = [scanner EXCEPT !.scanning = FALSE]
    /\ hist' = [hist EXCEPT !.stop_called = TRUE]
    /\ obs' = [op |-> "stop_scan", pc |-> main.pc]
    /\ UNCHANGED <<now, store, last_save_times, last_published_values,
                   last_availability, broker, monitor, channels,
                   device_values, user_values, last_hr_active_user, main,
                   sensor, lock, workers, bike, hrm>>

\* the loop condition is false: the scan goes on to close its channels
ScanLeave ==
    /\ monitor = "scanner"
    /\ main.pc = "wait"
    /\ ~ScanLoopCondition
    /\ main' = [main EXCEPT !.pc = "close"]
    /\ obs' = [op |-> "scan_leave", scanning |-> scanner.scanning,
               elapsed |-> now - main.start_time]
    /\ UNCHANGED <<now, store, last_save_times, last_published_values,
                   last_availability, broker, hist, monitor, channels,
                   device_values, user_values, last_hr_active_user, sensor,
                   lock, workers, bike, hrm, scanner>>

\* "Close channels and stop node": channel.close() for every channel
ScanClose ==
    /\ monitor = "scanner"
    /\ main.pc = "close"
    /\ channels' = <<>>
    /\ main' = [main EXCEPT !.pc = "stop_node"]
    /\ obs' = [op |-> "scan_close", closed |-> Len(channels)]
    /\ UNCHANGED <<now, store, last_save_times, last_published_values,
                   last_availability, broker, hist, monitor, device_values,
                   user_values, last_hr_active_user, sensor, lock, workers,
                   bike, hrm, scanner>>

\* finally: self.node.stop(); return self.found_devices
ScanStopNode ==
    /\ monitor = "scanner"
    /\ main.pc = "stop_node"
    /\ main' = [main EXCEPT !.pc = "done"]
    /\ obs' = [op |-> "scan_stop_node"]
    /\ UNCHANGED <<now, store, last_save_times, last_published_values,
                   last_availability, broker, hist, monitor, channels,
                   device_values, user_values, last_hr_active_user, sensor,
                   lock, workers, bike, hrm, scanner>>

NextStop ==
    \/ ScanBegin
    \/ StopScan
    \/ \E answered \in BOOLEAN : ScanCallback(1, HrPacket(70), answered, "ok")
    \/ ScanWait
    \/ ScanLeave
    \/ ScanClose
    \/ ScanStopNode

SpecStop == InitStop /\ [][NextStop]_vars

----------------------------------------------------------------------------
(* Properties of deep_merge_save                                           *)

SaveKey == record_key(obs.device_type, obs.device_id)

\* the last step was a rate-limited deep_merge_save call without metadata
PlainLimitedCall ==
    /\ obs.op = "deep_merge_save"
    /\ obs.rate_limit_secs = Some(RateLimitSecs)
    /\ obs.base_extra \in {None, Some(EmptyDict)}

\* C5: a rate-limited call without extra metadata is allowed to write
\* exactly when more than rate_limit_secs have passed since the last allowed
\* rate-limited call for the same key (or there was none), so two allowed
\* writes of a key are never within one window; an allowed call sets the
\* key's last-write time to the time of the call, a refused one leaves the
\* file and the last-write time alone.
C5_RateLimitPerKey ==
    PlainLimitedCall =>
        /\ obs.result # "rate_limited"
              <=> (\/ obs.prev_saved = None
                   \/ obs.t - obs.prev_saved[1] > RateLimitSecs)
        /\ obs.result # "rate_limited" => last_save_times[SaveKey] = obs.t
        /\ obs.result = "rate_limited" =>
              /\ last_save_times[SaveKey] = obs.prev_saved[1]
              /\ obs.t - last_save_times[SaveKey] <= RateLimitSecs

\* C5 witness: a second write of a key after its window elapsed.
C5_Witness ==
    /\ PlainLimitedCall
    /\ obs.result = "written"
    /\ obs.prev_saved # None
    /\ obs.t - obs.prev_saved[1] = RateLimitSecs + 1
    /\ store.data[SaveKey]["last_seen"] = obs.t

\* C6: a call that carries extra metadata is never refused by the rate
\* limit, however recently the key was written.
C6_ExtraBypassesRateLimit ==
    (obs.op = "deep_merge_save" /\ Truthy(obs.base_extra)) =>
        /\ obs.result # "rate_limited"
        /\ obs.result = "written" =>
              \A f \in DOMAIN obs.base_extra[1] :
                  store.data[SaveKey][f] = obs.base_extra[1][f]

\* C6 witness: a metadata call writes at the very time of the key's last
\* rate-limited write.
C6_Witness ==
    /\ obs.op = "deep_merge_save" /\ Truthy(obs.base_extra)
    /\ obs.rate_limit_secs = Some(RateLimitSecs)
    /\ obs.prev_saved = Some(obs.t)
    /\ obs.result = "written"

\* the fields a call supplies
SuppliedFields(base_extra) ==
    {"device_id", "device_type", "transmission_type", "description",
     "last_seen"}
    \union (IF Truthy(base_extra) THEN DOMAIN base_extra[1] ELSE {})
    \union (IF Truthy(base_extra)
               /\ "manufacturer_id" \in DOMAIN base_extra[1]
               /\ base_extra[1]["manufacturer_id"] \in DOMAIN DefaultManufacturers
            THEN {"manufacturer_name"} ELSE {})

\* the records a file holds
Records(file) == IF file.state = "json" THEN file.data ELSE EmptyDict

\* C7: a write that succeeds merges: the fields of the key's existing record
\* that the call does not supply keep their values, the supplied fields take
\* the new values, and the records of all other keys stay as they were.
C7_WriteMerges ==
    [][(obs'.op = "deep_merge_save" /\ obs'.result = "written") =>
        LET rk  == record_key(obs'.device_type, obs'.device_id)
            old == DictGet(Records(store), rk, EmptyDict)
            new == Records(store')[rk]
            sup == SuppliedFields(obs'.base_extra)
        IN  /\ store'.state = "json"
            /\ DOMAIN Records(store') = DOMAIN Records(store) \union {rk}
            /\ \A k \in DOMAIN Records(store) \ {rk} :
                  Records(store')[k] = Records(store)[k]
            /\ DOMAIN new = DOMAIN old \union sup
            /\ \A f \in DOMAIN old \ sup : new[f] = old[f]
            /\ new["device_id"] = obs'.device_id
            /\ new["device_type"] = obs'.device_type
            /\ new["transmission_type"] = obs'.transmission_type
            /\ new["last_seen"] = obs'.t
            /\ Truthy(obs'.base_extra) =>
                  \A f \in DOMAIN obs'.base_extra[1] :
                      new[f] = obs'.base_extra[1][f]]_vars

\* C7 witness: after a write with metadata the record still has the field
\* only the original file supplied, next to the new fields, and the other
\* key's record is still there.
C7_Witness ==
    /\ obs.op = "deep_merge_save" /\ obs.result = "written"
    /\ Truthy(obs.base_extra)
    /\ {"old_field", "manufacturer_name"} \subseteq DOMAIN store.data[SaveKey]
    /\ store.data[SaveKey]["old_field"] = "old_value"
    /\ store.data[SaveKey]["manufacturer_name"] = "Garmin/Dynastream"
    /\ store.data[SaveKey]["last_seen"] = obs.t
    /\ "11_111" \in DOMAIN store.data

----------------------------------------------------------------------------
(* Properties of the publish handlers                                      *)

\* the last step was a _publish_user_metrics call that called the sink for m
Sent(m) == MetricTopic(obs.user, m) \in Topics(obs.calls)

\* the value the previous call for the same user carried for m
PrevVal(m) == IF obs.prev_vals = None THEN None ELSE obs.prev_vals[1][m]

\* C1: a _publish_user_metrics call sends a metric to the sink exactly when
\* its value is present and differs from the value the previous call for
\* that user carried (so repeating a call sends nothing and changing one
\* metric sends that metric alone), once per metric, with the payload of the
\* value.
C1_PublishDebounce ==
    obs.op = "_publish_user_metrics" =>
        /\ \A m \in Metrics :
              Sent(m) <=> (obs.vals[m] # None /\ obs.vals[m] # PrevVal(m))
        /\ Len(obs.calls) = Cardinality(Topics(obs.calls))
        /\ \A i \in 1..Len(obs.calls) : \E m \in Metrics :
              /\ obs.vals[m] # None
              /\ obs.calls[i] = <<MetricTopic(obs.user, m),
                                  MetricPayload(m, obs.vals[m][1])>>

\* C1 witness: a call that changed the speed and kept the heart rate
\* published the speed alone.
C1_Witness ==
    /\ obs.op = "_publish_user_metrics"
    /\ obs.vals["hr"] # None /\ obs.vals["hr"] = PrevVal("hr")
    /\ PrevVal("speed") # None /\ obs.vals["speed"] # None
    /\ Topics(obs.calls) = {MetricTopic(obs.user, "speed")}

\* C2: a metric whose publish raised is sent again by the next call that
\* carries the same value.
C2_FailedPublishRetried ==
    [][(/\ obs.op = "_publish_user_metrics"
        /\ obs'.op = "_publish_user_metrics"
        /\ obs'.user = obs.user)
       => \A m \in Metrics :
            (/\ MetricTopic(obs.user, m) \in obs.raised
             /\ obs'.vals[m] = obs.vals[m])
            => MetricTopic(obs.user, m) \in Topics(obs'.calls)]_vars

\* C3 as stated: an absent metric is never published and does not clear the
\* previously published value: a call that carries the value that was the
\* last one present for (user, metric) does not publish it.
C3_AbsentKeepsPublished ==
    obs.op = "_publish_user_metrics" =>
        \A m \in Metrics :
            /\ obs.vals[m] = None => ~Sent(m)
            /\ (obs.vals[m] # None /\ obs.prev_present[m] = obs.vals[m])
                   => ~Sent(m)

\* C3 amended: an absent metric is never published, and it clears the
\* debounce state: a call that carries a value after a call in which the
\* metric was absent publishes it, also when it is the value published last.
C3_AbsentClearsPublished ==
    obs.op = "_publish_user_metrics" =>
        \A m \in Metrics :
            /\ obs.vals[m] = None => ~Sent(m)
            /\ (obs.vals[m] # None /\ PrevVal(m) = None) => Sent(m)

\* C3 witness: v was carried, then the metric was absent, then v again, and
\* the last call published it.
C3_Witness ==
    /\ obs.op = "_publish_user_metrics"
    /\ \E m \in Metrics :
          /\ obs.vals[m] # None /\ obs.prev_present[m] = obs.vals[m]
          /\ obs.prev_vals # None /\ PrevVal(m) = None
          /\ Sent(m)

\* the availability the sink last accepted for user among the first n calls
\* of the log
RECURSIVE LastAccepted(_, _, _)
LastAccepted(log, n, user) ==
    IF n = 0 THEN None
    ELSE IF log[n].user = user /\ log[n].ok
              /\ LastAccepted(log, n - 1, user) # Some(log[n].online)
         THEN Some(log[n].online)
         ELSE LastAccepted(log, n - 1, user)

\* the number of calls for user among the first n of the log whose flag
\* differs from the one the sink accepted last
RECURSIVE Transitions(_, _, _)
Transitions(log, n, user) ==
    IF n = 0 THEN 0
    ELSE Transitions(log, n - 1, user) +
         (IF log[n].user = user
              /\ LastAccepted(log, n - 1, user) # Some(log[n].online)
          THEN 1 ELSE 0)

\* C4: an _availability call publishes exactly when it is the first for the
\* user or its flag differs from the one published last, with payload
\* online/offline on {base}/users/{user}/availability; so the number of
\* publishes for a user is the number of such calls.
C4_AvailabilityOnTransition ==
    /\ obs.op = "_availability" =>
          LET n == Len(hist.avail_log)
              changed == LastAccepted(hist.avail_log, n - 1, obs.user)
                             # Some(obs.online)
          IN  obs.calls =
                IF changed
                THEN <<<<base_topic \o "/users/" \o obs.user \o "/availability",
                        IF obs.online THEN "online" ELSE "offline">>>>
                ELSE <<>>
    /\ \A u \in UserNames :
          hist.avail_pub[u] =
              Transitions(hist.avail_log, Len(hist.avail_log), u)

\* C4 witness: three online calls, then offline, then online, all accepted:
\* three publishes.
C4_Witness ==
    /\ Len(hist.avail_log) = 5
    /\ \A i \in 1..5 : hist.avail_log[i].user = "A" /\ hist.avail_log[i].ok
    /\ [i \in 1..5 |-> hist.avail_log[i].online]
           = <<TRUE, TRUE, TRUE, FALSE, TRUE>>
    /\ hist.avail_pub["A"] = 3

----------------------------------------------------------------------------
(* Attribution of the shared sensors and of the heart rate                 *)

\* the user of the most recent packet with a nonzero heart-rate byte
LatestHrUser ==
    IF hist.last_hr = None THEN None ELSE user_for_hr(hist.last_hr[1])

\* the metrics the shared devices provide
SharedMetrics ==
    {m \in {"speed", "cadence", "power"} :
        DictGet(Wattbike, m \o "_device_id", 0) # 0}

\* the present value of the shared device for metric m, None without one
SharedValue(m) ==
    LET id == Wattbike[m \o "_device_id"]
    IN  IF id \in DOMAIN device_values
        THEN DictGet(device_values[id], m, None) ELSE None

\* C8: in MqttMonitor the shared-device step of every tick takes as its
\* target the user of the most recent nonzero heart-rate packet, copies the
\* present shared values onto that user's aggregate and leaves the
\* aggregates of the other users as they were.
C8_SharedFollowsLatestHr ==
    monitor = "mqtt" =>
        /\ obs.op = "shared_read" => obs.target = LatestHrUser
        /\ obs.op = "shared_update" =>
              /\ \A m \in SharedMetrics :
                    SharedValue(m) # None =>
                        user_values[obs.target[1]][m] = SharedValue(m)
              /\ \A u \in DOMAIN obs.before \ {obs.target[1]} :
                    user_values[u] = obs.before[u]

\* C9: while last_hr_active_user is unset no tick is in the locked block of
\* the shared-device step, no user's update time has been stamped by that
\* step, and the metrics that only the shared devices provide are unset for
\* every user.
C9_NoTargetNoAttribution ==
    last_hr_active_user = None =>
        /\ main.pc # "shared_update"
        /\ hist.shared = {}
        /\ \A u \in DOMAIN user_values : \A m \in SharedMetrics :
              (\A i \in 1..Len(Users) :
                    DictGet(Users[i], m \o "_device_id", 0) = 0)
                 => user_values[u][m] = None

\* a tick has just returned from the shared-device step without a target
\* although the shared speed sensor has a value and the users are in the
\* store
C9_Witness ==
    /\ last_hr_active_user = None
    /\ obs.op = "shared_read"
    /\ obs.target = None
    /\ SharedValue("speed") # None
    /\ \A i \in 1..Len(Users) : Users[i].name \in DOMAIN user_values

\* C10: for the user with heart-rate devices [100, 101], once device 101 has
\* reported a heart rate of 0, while device 100 has sent no packet and
\* neither device has reported a nonzero heart rate, the user's aggregate
\* heart rate is unset.
C10_ZeroHrStaysUnset ==
    LET user == Users[1]
        ids  == HrIds(user)
    IN  (/\ ids[2] \in DOMAIN device_values
         /\ DictGet(device_values[ids[2]], "hr", None) = Some(0)
         /\ ids[1] \notin DOMAIN device_values
         /\ hist.hr_seen \cap {ids[1], ids[2]} = {})
        => (user.name \in DOMAIN user_values
               => user_values[user.name].hr = None)

\* the user entry with the given name
UserByName(name) ==
    Users[CHOOSE i \in 1..Len(Users) : Users[i].name = name]

\* the reading of the first device, in the declaration order of the user's
\* heart-rate devices, that has a reading in the device store dvs
FirstListedHr(user, dvs) ==
    LET ids  == HrIds(user)
        have == {j \in 1..Len(ids) :
                    /\ ids[j] \in DOMAIN dvs
                    /\ DictGet(dvs[ids[j]], "hr", None) # None}
    IN  IF have = {} THEN None
        ELSE dvs[ids[CHOOSE j \in have : \A k \in have : j <= k]].hr

OwnedMetrics(user) ==
    {m \in {"speed", "cadence", "power"} :
        DictGet(user, m \o "_device_id", 0) # 0}

\* C12: when the tick has finished its step for a user, every present value
\* of a speed, cadence or power device the user owns is in the user's
\* aggregate, also when the user has no heart-rate reading.
C12_OwnedSensorsCopied ==
    (/\ monitor = "mqtt"
     /\ \/ obs.op = "update"
        \/ obs.op = "scan" /\ obs.hr_value = None)
    => LET user == UserByName(obs.user)
       IN  \A m \in OwnedMetrics(user) :
               LET id == user[m \o "_device_id"]
               IN  (/\ id \in DOMAIN device_values
                    /\ DictGet(device_values[id], m, None) # None)
                   => /\ obs.user \in DOMAIN user_values
                      /\ user_values[obs.user][m] = device_values[id][m]

\* the availability payloads a step handed to the sink for a user
AvailabilityCalls(calls, user) ==
    {calls[k][2] : k \in {j \in 1..Len(calls) :
                             calls[j][1] = AvailabilityTopic(user)}}

C14_StoppedMeansOffline ==
    main.pc = "stopped" =>
        /\ channels = <<>>
        /\ \A u \in DOMAIN user_values :
              DictGet(broker, AvailabilityTopic(u), "") = "offline"

\* the thread whose step just performed I/O: a channel-id request, a read
\* or write of the store file, or a call of the publish sink
IoThread ==
    CASE obs.op = "request_id" -> Some(obs.worker)
      [] obs.op = "save_read" /\ obs.result # "rate_limited"
                                -> Some(obs.worker)
      [] obs.op = "save_write" -> Some(obs.worker)
      [] obs.op = "active" /\ obs.calls # <<>> -> Some(obs.worker)
      [] obs.op = "publish" /\ obs.calls # <<>> -> Some("main")
      [] OTHER -> None

\* C15: a thread that performs I/O (persistence, channel-id request,
\* publish) does not hold the lock of the device store while it does.
C15_NoIoUnderLock ==
    IoThread # None => lock # IoThread

\* the threads that have read the store file and not yet written it back
Saving == {w \in Workers : workers[w].pc = "save_write"}

\* C16: no two callbacks are between the read and the write of the store
\* file at the same time, and every record a callback has written is in the
\* file, whatever the other callbacks wrote since.
C16_SavesSerialized ==
    /\ Cardinality(Saving) <= 1
    /\ \A rk \in hist.writes :
          /\ store.state = "json"
          /\ rk \in DOMAIN store.data

\* two callbacks of different devices ran at the same time, both wrote
\* their record, the second just now, and the file holds both
C16_Witness ==
    /\ obs.op = "save_write"
    /\ hist.overlap
    /\ Cardinality(hist.writes) = 2
    /\ store.state = "json"
    /\ hist.writes \subseteq DOMAIN store.data

BikeRecord == DictGet(device_values, channels[1].device_id, EmptyDict)

\* C18: a sample whose event time equals the stored baseline leaves the
\* speed and the cadence held for the device as they were.
C18_ZeroDeltaKeepsValues ==
    (/\ obs.op = "sample"
     /\ ~obs.short
     /\ ~obs.first
     /\ obs.dt_ticks = 0)
    => /\ BikeRecord.speed = obs.before.speed
       /\ BikeRecord.cadence = obs.before.cadence

\* the difference of two transmitted 16-bit counter values, the later one
\* having wrapped when it is the smaller
Wrapped(new, prior) ==
    IF new >= prior THEN new - prior ELSE new - prior + 65536

\* C19: for a decoder that holds a baseline, the tick delta and the
\* revolution delta of a sample are (new - prior) mod 65536: they equal what
\* the sensor counted since the baseline, wrapped counters or not, lie in
\* 0..65535, and the monitors' speed and cadence are the ones of these
\* deltas.
C19_DeltasModulo ==
    (/\ obs.op \in {"sample", "bike_data"}
     /\ ~obs.short
     /\ ~obs.first)
    => /\ obs.dt_ticks = obs.true_dt
       /\ obs.d_revs = obs.true_dr
       /\ obs.dt_ticks \in 0..65535
       /\ obs.d_revs \in 0..65535
       /\ obs.op = "sample" =>
             /\ obs.dt_ticks = Wrapped(BikeRecord.evt_time,
                                       obs.before.evt_time)
             /\ obs.d_revs = Wrapped(BikeRecord.revs, obs.before.revs)
             /\ (obs.true_dt > 0 /\ channels[1].device_type \in {121, 123})
                   => BikeRecord.speed =
                         Some(Ratio(obs.true_dr * wheel_circumference_m[1]
                                       * 1024 * 18,
                                    wheel_circumference_m[2] * obs.true_dt
                                       * 5))
             /\ (obs.true_dt > 0 /\ channels[1].device_type \in {121, 122})
                   => BikeRecord.cadence =
                         Some(Ratio(obs.true_dr * 1024 * 60, obs.true_dt))
       /\ obs.op = "bike_data" =>
             /\ obs.dt_ticks = Wrapped(bike._last_speed_event_time,
                                       obs.before._last_speed_event_time)
             /\ obs.d_revs = Wrapped(bike._last_speed_revolution_count,
                                     obs.before._last_speed_revolution_count)

\* the baseline holds event time 65530 and count 65534, both counters have
\* wrapped in the sample just decoded (event time 10, count 0), and the
\* deltas are 16 and 2
C19_Witness ==
    /\ obs.op = "sample"
    /\ ~obs.short
    /\ ~obs.first
    /\ obs.before.evt_time = 65530
    /\ obs.before.revs = 65534
    /\ BikeRecord.evt_time = 10
    /\ BikeRecord.revs = 0
    /\ obs.dt_ticks = 16
    /\ obs.d_revs = 2
    /\ channels[1].device_type = 121
    /\ BikeRecord.cadence = Some(<<7680, 1>>)

\* C20: the first sample of a speed/cadence device stores the transmitted
\* event time and revolution count and no speed or cadence (BikeSensor: it
\* computes none); a monitor holds a speed or a cadence for the device only
\* after at least two samples.
C20_FirstSampleBaselineOnly ==
    /\ (obs.op = "sample" /\ ~obs.short /\ obs.first) =>
          /\ BikeRecord.speed = None
          /\ BikeRecord.cadence = None
          /\ BikeRecord.evt_time = sensor.ticks % 65536
          /\ BikeRecord.revs = sensor.revs % 65536
    /\ (obs.op = "bike_data" /\ ~obs.short /\ obs.first) =>
          /\ bike.speed = obs.before.speed
          /\ bike.cadence = obs.before.cadence
          /\ bike._last_speed_event_time = sensor.ticks % 65536
          /\ bike._last_speed_revolution_count = sensor.revs % 65536
    /\ (monitor \in {"mqtt", "live"} /\ sensor.sample < 2) =>
          /\ DictGet(BikeRecord, "speed", None) = None
          /\ DictGet(BikeRecord, "cadence", None) = None

\* the first sample of a monitor's device arrived after the sensor had
\* counted ticks and revolutions: the counters are stored, speed and
\* cadence are absent
C20_Witness ==
    /\ obs.op = "sample"
    /\ ~obs.short
    /\ obs.first
    /\ sensor.sample = 1
    /\ obs.true_dt = 1024
    /\ obs.true_dr = 2
    /\ BikeRecord.evt_time = 1024
    /\ BikeRecord.revs = 2
    /\ BikeRecord.speed = None
    /\ BikeRecord.cadence = None

\* the bytes on_broadcast reads from a payload of the profile: data[7] for
\* heart rate and speed/cadence, data[8] for power
MinLength(device_type) == IF device_type = 11 THEN 9 ELSE 8

\* the decoded values a device record can hold
DecodedKeys == {"hr", "speed", "cadence", "power", "evt_time", "revs"}

\* the records a and b hold the same decoded values
SameDecoded(a, b) ==
    \A k \in DecodedKeys :
        /\ k \in DOMAIN a <=> k \in DOMAIN b
        /\ k \in DOMAIN a => a[k] = b[k]

\* the channel of the configuration that listens to the device
ChannelOf(device_id) ==
    LET opens == SelectSeq(SetupProgram, LAMBDA st : st.op = "open")
    IN  opens[CHOOSE k \in 1..Len(opens) : opens[k].device_id = device_id]

\* C21: a callback whose payload is shorter than the minimum length of the
\* profile leaves the decoded values stored for the device as they were.
C21_ShortPayloadKeepsState ==
    [][(/\ obs'.op = "on_broadcast"
        /\ Len(obs'.data) < MinLength(ChannelOf(obs'.device_id).device_type))
       => SameDecoded(DictGet(device_values, obs'.device_id, EmptyDict),
                      device_values'[obs'.device_id])]_vars

\* C22: after a heart-rate callback with a payload of at least 8 bytes the
\* heart rate stored for the device is byte 7 of the payload, whatever its
\* value.
C22_StoredHrIsByte7 ==
    (obs.op = "hr_data" /\ Len(obs.data) >= 8)
        => hrm.heart_rate = obs.data[8]

\* C23: whatever the sink, the file I/O and the channel-id request do, no
\* exception leaves on_broadcast or the block of run that publishes, and
\* the main thread stays in its loop.
C23_NoErrorEscapes ==
    /\ main.pc \in LoopPcs \union {"display"}
    /\ obs.op \in {"on_broadcast", "publish"} => obs.escaped = {}

\* the sink refused the calls of a tick after a callback had left the file
\* corrupt, and the loop goes on to its sleep
C23_Witness ==
    /\ obs.op = "publish"
    /\ obs.raised # {}
    /\ store = CorruptFile
    /\ main.pc = "sleep"

\* C24: a deep_merge_save call whose file I/O fails returns to its caller
\* without an exception, and the caller's device and user stores are as
\* they were before the call.
C24_SaveNeverRaises ==
    [][(obs'.op = "deep_merge_save" /\ obs'.result = "io_error")
       => /\ obs'.escaped = {}
          /\ UNCHANGED <<device_values, user_values, last_published_values,
                         last_availability>>]_vars

\* a call failed while writing and left the file corrupt; one failed before
\* anything was written
C24_Witness ==
    /\ obs.op = "deep_merge_save"
    /\ obs.result = "io_error"
    /\ store = CorruptFile
    /\ obs.base_extra # None

\* the users whose configuration entry names the heart-rate device, in the
\* list hr_device_ids or as the single hr_device_id
UsersListing(hr_device_id) ==
    {Users[i].name : i \in {k \in 1..Len(Users) :
        \/ InSeq(hr_device_id, DictGet(Users[k], "hr_device_ids", <<>>))
        \/ DictGet(Users[k], "hr_device_id", 0) = hr_device_id}}

\* C25: _user_for_hr gives the name of the user whose entry lists the
\* device, in hr_device_ids or as hr_device_id, and None for a device that
\* no entry lists, in each of the three monitor classes.
C25_UserForHrMapping ==
    obs.op = "_user_for_hr"
        => IF UsersListing(obs.hr_device_id) = {} THEN obs.result = None
           ELSE /\ obs.result # None
                /\ obs.result[1] \in UsersListing(obs.hr_device_id)

\* the heart-rate device ids of a configuration entry
ConfiguredHrIds(user) ==
    IF DictGet(user, "hr_device_ids", <<>>) # <<>> THEN user.hr_device_ids
    ELSE IF DictGet(user, "hr_device_id", 0) # 0 THEN <<user.hr_device_id>>
    ELSE <<>>

\* the channels opened for the device
ChannelsFor(device_id) ==
    {k \in 1..Len(channels) : channels[k].device_id = device_id}

\* C26: when _open_configured_channels has returned, every heart-rate device
\* of every user has exactly one channel of type 120, labelled name-HR (one
\* device) or name-HR1, name-HR2, ... (several), and the user store holds an
\* entry with no metric and update time 0 for exactly the users that have a
\* heart-rate device.
C26_ChannelsAndUsersAfterSetup ==
    main.pc # "setup"
        => /\ \A i \in 1..Len(Users) :
                LET ids == ConfiguredHrIds(Users[i])
                IN  \A j \in 1..Len(ids) :
                        /\ Cardinality(ChannelsFor(ids[j])) = 1
                        /\ \A k \in ChannelsFor(ids[j]) :
                              /\ channels[k].device_type = 120
                              /\ channels[k].label =
                                    Users[i].name \o "-HR" \o
                                    (IF Len(ids) > 1 THEN ToString(j) ELSE "")
           /\ DOMAIN user_values =
                 {Users[i].name : i \in {k \in 1..Len(Users) :
                                            ConfiguredHrIds(Users[k]) # <<>>}}
           /\ \A u \in DOMAIN user_values :
                 user_values[u] = [hr |-> None, speed |-> None,
                                   cadence |-> None, power |-> None,
                                   updated |-> 0]

\* C27: on each scan channel at most 5 channel-id requests fail, at most
\* one succeeds, and none is made after the one that succeeded.
C27_IdRequestsBounded ==
    \A k \in 1..Len(ScanChannels) :
        /\ DictGet(hist.id_failed, k, 0) <= 5
        /\ DictGet(hist.id_ok, k, 0) <= 1
        /\ DictGet(hist.id_late, k, 0) = 0

\* a sixth packet arrives on a channel whose five requests failed: no
\* request is made
C27_Witness ==
    /\ obs.op = "scan_callback"
    /\ ~obs.asked
    /\ DictGet(hist.id_failed, obs.channel, 0) = 5

\* C28: a rate-limited call without extra metadata made exactly
\* rate_limit_secs after the key's last allowed write is allowed to write.
C28_BoundaryInclusive ==
    (/\ PlainLimitedCall
     /\ obs.prev_saved # None
     /\ obs.t - obs.prev_saved[1] = RateLimitSecs)
        => obs.result # "rate_limited"

\* C29: whenever the assignment step reads the device store (the scan of a
\* user's heart-rate devices, the copy of the owned sensors, the copy of
\* the shared sensors), no packet callback is inside its locked block.
C29_AssignmentReadsUnderLock ==
    obs.op \in {"scan", "update", "shared_update"}
        => \A w \in Workers : lock # Some(w)

\* C30: over every step, the update time of every user of the user store
\* does not decrease, the user stays in the store, and each of its metrics
\* that had a value still has one.
C30_AggregateMonotone ==
    [][\A u \in DOMAIN user_values :
          /\ u \in DOMAIN user_values'
          /\ user_values'[u].updated >= user_values[u].updated
          /\ \A m \in Metrics :
                user_values[u][m] # None => user_values'[u][m] # None]_vars

\* user B keeps the power that was copied from the power meter after the
\* meter's record lost its value to a short page and B was updated again
C30_Witness ==
    /\ obs.op = "update"
    /\ obs.user = "B"
    /\ user_values["B"].power = Some(150)
    /\ user_values["B"].updated > StartTime
    /\ 111 \in DOMAIN device_values
    /\ device_values[111].power = None

\* the key under which the device of the callback on thread w is saved; it
\* is in last_save_times once a channel-id request of the device's channel
\* has been answered and the save that follows it was let through
WorkerKey(w) ==
    record_key(workers[w].ch.device_type, workers[w].ch.device_id)

\* C31: a channel whose channel-id request has been answered once is not
\* asked for its channel id by a later packet.
C31_IdRequestedOnce ==
    obs.op = "request_id" => WorkerKey(obs.worker) \notin DOMAIN last_save_times

\* the found_devices key of the device that scan channel k hears
ScanKey(k) == record_key(ScanChannels[k].device_type, ScanChannels[k].device_id)

\* C32: after a packet of at least 2 bytes from a device that is in
\* found_devices, the device's last_seen is the time of the packet and its
\* record holds the common-page fields of the packet.
C32_KnownDeviceRefreshed ==
    (/\ obs.op = "scan_callback"
     /\ Len(obs.data) >= 2
     /\ ScanKey(obs.channel) \in DOMAIN scanner.found_devices)
        => LET rec   == scanner.found_devices[ScanKey(obs.channel)]
               extra == ParseCommonPages(obs.data)
           IN  /\ rec.last_seen = obs.t
               /\ \A f \in DOMAIN extra :
                     f \in DOMAIN rec /\ rec[f] = extra[f]

\* C33: once stop_scan() has been called, the wait loop of
\* scan_for_devices() does not go through another iteration.
C33_StopEndsWait ==
    ~(hist.stop_called /\ obs.op = "scan_wait")

\* user `name` has a nonzero heart rate in the device records
HasNonzeroHr(name) ==
    LET hr_val == ScanHr(UserByName(name), device_values)
    IN  hr_val # None /\ hr_val # Some(0)

\* C34: in the curses LiveMonitor, when users A and B both have a nonzero
\* heart rate and the most recent nonzero heart-rate packet is A's, the
\* shared-device step of a tick takes A as its target.
C34_LiveSharedFollowsLatestHr ==
    (/\ monitor = "live"
     /\ obs.op = "shared_read"
     /\ HasNonzeroHr("A")
     /\ HasNonzeroHr("B")
     /\ LatestHrUser = Some("A"))
        => obs.target = Some("A")

\* C35: in BikeSensor every valid sample after the first whose tick delta
\* and revolution delta are nonzero sets the speed and the cadence to the
\* ones of these deltas, whatever the event time of the preceding sample.
C35_LaterSampleRecomputes ==
    (/\ obs.op = "bike_data"
     /\ ~obs.short
     /\ sensor.sample >= 2
     /\ obs.true_dt > 0
     /\ obs.true_dr > 0)
    => /\ bike.speed =
             Ratio(obs.true_dr * wheel_circumference[1] * 1024 * 18,
                   wheel_circumference[2] * obs.true_dt * 5)
       /\ bike.cadence = IntOf(Ratio(obs.true_dr * 1024 * 60, obs.true_dt))

\* C36: a user the broker holds as online is published offline later on,
\* unless another packet arrives: with the sensors silent and the loop of
\* run() going on, "offline" follows.
C36_SilentUserGoesOffline ==
    (/\ DictGet(broker, AvailabilityTopic("A"), "") = "online"
     /\ obs.op # "on_broadcast")
        ~> (\/ DictGet(broker, AvailabilityTopic("A"), "") = "offline"
            \/ obs.op = "on_broadcast")

\* C37: in MqttMonitor a step that hands the sink an availability message
\* for a user for whom none has been published so far hands it "offline"
\* only.
C37_FirstAvailabilityOffline ==
    [][\A u \in UserNames :
          (/\ monitor = "mqtt"
           /\ DictGet(last_availability, u, None) = None
           /\ AvailabilityTopic(u) \notin DOMAIN broker)
             => AvailabilityCalls(DictGet(obs', "calls", <<>>), u)
                    \subseteq {"offline"}]_vars

\* where the main thread is when its next step is `with self.lock:`
MainAcquirePcs == {"update", "shared_update", "publish", "display"}

C40_FailedPublishNotRecorded ==
    [][obs'.op = "_availability" =>
          /\ (obs'.raised # {} \/ obs'.calls = <<>>)
                => last_availability' = last_availability
          /\ (obs'.raised = {} /\ obs'.calls # <<>>)
                => last_availability' =
                      DictSet(last_availability, obs'.user, Some(obs'.online))
          /\ (/\ obs.op = "_availability"
              /\ obs.raised # {}
              /\ obs'.user = obs.user
              /\ obs'.online = obs.online)
                => obs'.calls # <<>>]_vars

\* the publish of "online" for user A raised, the call was repeated with the
\* same flag, published again and was recorded
C40_Witness ==
    LET n == Len(hist.avail_log)
    IN  /\ n >= 2
        /\ hist.avail_log[n - 1] = [user |-> "A", online |-> TRUE, ok |-> FALSE]
        /\ hist.avail_log[n] = [user |-> "A", online |-> TRUE, ok |-> TRUE]
        /\ obs.op = "_availability"
        /\ obs.calls # <<>>
        /\ last_availability["A"] = Some(TRUE)
        /\ hist.avail_pub["A"] = 2

\* C39: a rate-limited deep_merge_save call whose write fails has set the
\* key's last-write time to the time of the call; a call for the key
\* without metadata that follows the failed one within rate_limit_secs is
\* refused and leaves the store alone.
C39_FailedWriteConsumesWindow ==
    [][obs'.op = "deep_merge_save" =>
          LET rk     == record_key(obs'.device_type, obs'.device_id)
              failed == DictGet(hist.failed, rk, 0)
          IN  /\ (/\ obs'.result = "io_error"
                  /\ obs'.rate_limit_secs = Some(RateLimitSecs))
                    => /\ rk \in DOMAIN last_save_times'
                       /\ last_save_times'[rk] = obs'.t
              /\ (/\ obs'.rate_limit_secs = Some(RateLimitSecs)
                  /\ obs'.base_extra \in {None, Some(EmptyDict)}
                  /\ failed # 0
                  /\ obs'.t - failed <= RateLimitSecs)
                    => /\ obs'.result = "rate_limited"
                       /\ store' = store
                       /\ last_save_times' = last_save_times]_vars

\* the write of a key failed and, one second later and inside the window, a
\* call for the key without metadata was refused
C39_Witness ==
    /\ PlainLimitedCall
    /\ obs.result = "rate_limited"
    /\ DictGet(hist.failed, SaveKey, 0) = obs.t - 1
    /\ last_save_times[SaveKey] = obs.t - 1

====
